---- MODULE Spec2Model ----
(***************************************************************************)
(* Model of the SSL certificate monitor (ssl_certificate_monitor).         *)
(*                                                                         *)
(* The state machine follows one call of one of the program's operations,  *)
(* chosen by `entry`:                                                      *)
(*   _is_retryable_error          NetworkErrorHandler._is_retryable_error  *)
(*   with_retry                   NetworkErrorHandler.with_retry           *)
(*   classify                     ExpiryCalculator day count and predicates*)
(*   categorize_certificates      ExpiryCalculator.categorize_certificates *)
(*   _check_certificates_batch    SSLCertificateMonitor batch orchestrator *)
(*   execute                      SSLCertificateMonitor.execute            *)
(*   _publish_with_retry          SNSNotificationService publish loop      *)
(*   send_batch_notifications     SNSNotificationService batch sending     *)
(*   _send_notifications          SSLCertificateMonitor alert step         *)
(*   lambda_handler               the Lambda entry point                   *)
(*   normalize                    DomainConfigManager clean and validate   *)
(*   send_status_report           SNSNotificationService status report text*)
(*   format_notification_content  SNSNotificationService alert text        *)
(*   check_certificate            SSLCertificateChecker.check_certificate  *)
(*   with_timeout                 TimeoutHandler.with_timeout              *)
(* Times are whole seconds; a timedelta's day count is the floor of the    *)
(* difference divided by the length of a day.                              *)
(***************************************************************************)
EXTENDS Integers, Sequences, FiniteSets, TLC

VARIABLES
    entry,               \* the operation that was called
    pc,                  \* control point inside that operation
    now,                 \* wall clock (datetime.now), seconds
    max_retries,         \* NetworkErrorHandler.max_retries
    base_delay,          \* NetworkErrorHandler.base_delay
    attempt,             \* with_retry: loop variable
    last_exception,      \* with_retry: last exception caught / argument of _is_retryable_error
    retryable,           \* result of the latest _is_retryable_error call
    events,              \* with_retry: calls of func and sleeps, in order
    wr_result,           \* with_retry: how it ended (return value or raised error)
    warning_days,        \* ExpiryCalculator.warning_days
    expiry_date,         \* classify: the expiry time given
    days_until_expiry,   \* classify: result of calculate_days_until_expiry
    expired,             \* classify: result of is_expired
    expiring_soon,       \* classify: result of is_expiring_soon
    certificates,        \* categorize_certificates: the argument
    categorized,         \* the dict returned by categorize_certificates
    domains,             \* what domain_manager.get_domains returns / the batch argument
    domain_error,        \* the exception get_domains raises, NoError if it returns
    batch_size,          \* _check_certificates_batch: batch_size
    i,                   \* _check_certificates_batch: start of the current batch (0-based)
    j,                   \* _check_certificates_batch: offset of the current domain in its batch
    clean_domain,        \* check_certificate: the cleaned domain
    certificate_results, \* _check_certificates_batch: records collected so far
    batch_log,           \* calls of check_certificate and pauses, in order
    execution_stats,     \* LoggerService.execution_stats
    notification_sent,   \* execute: what _send_notifications returned
    notify_log,          \* calls made to the notification service, in order
    start_time,          \* execute: start_time
    result,              \* the CheckResult execute returned
    configuration_valid, \* SNSNotificationService._validate_configuration()
    service_error,       \* what the notification service raises, NoError if it returns
    pub_max_retries,     \* _publish_with_retry: max_retries
    pub_attempt,         \* _publish_with_retry: loop variable
    pub_log,             \* _publish_with_retry: publish calls and waits, in order
    pub_result,          \* _publish_with_retry: what it returned
    notification_domains,\* the records given to the notification service
    sns_batch_size,      \* send_batch_notifications: batch_size
    batch_start,         \* send_batch_notifications: loop variable i
    success_count,       \* send_batch_notifications: success_count
    sent_log,            \* calls of send_expiry_notification and their results, in order
    sn_result,           \* what send_batch_notifications returned
    ctor_error,          \* lambda_handler: what SSLCertificateMonitor() raises
    execute_error,       \* lambda_handler: what monitor.execute() raises
    logging_fails,       \* lambda_handler: logging the critical error raises
    response,            \* lambda_handler: the response returned
    raw_domain,          \* normalize: the text given
    once,                \* normalize(raw_domain)
    twice,               \* normalize(normalize(raw_domain))
    categorize_error,    \* execute: what categorize_certificates raised, NoError if it returned
    status_subject,      \* send_status_report: the subject formatted
    status_message,      \* send_status_report: the content formatted
    status_message_again,\* the content formatted a second time from the same arguments
    alert_content,       \* format_notification_content: the text returned
    alarm,               \* with_timeout: seconds of the pending SIGALRM, 0 when none is armed
    sigalrm_handler,     \* with_timeout: the handler installed for SIGALRM
    wt_result,           \* with_timeout: how it ended
    timeout,             \* with_timeout: the timeout argument, 0 for None
    sigalrm_delivered    \* the handler a SIGALRM was delivered to, "none" so far

handlerVars  == <<max_retries, base_delay>>
retryVars    == <<attempt, last_exception, retryable, events, wr_result>>
classifyVars == <<expiry_date, days_until_expiry, expired, expiring_soon>>
calcVars     == <<warning_days, certificates, categorized>>
batchVars    == <<domains, domain_error, batch_size, i, j, clean_domain,
                  certificate_results, batch_log>>
execVars     == <<execution_stats, notification_sent, notify_log, start_time, result>>
snsVars      == <<configuration_valid, service_error, pub_max_retries, pub_attempt,
                  pub_log, pub_result, notification_domains, sns_batch_size,
                  batch_start, success_count, sent_log, sn_result>>
lambdaVars   == <<ctor_error, execute_error, logging_fails, response>>
normVars     == <<raw_domain, once, twice>>
reportVars   == <<status_subject, status_message, status_message_again, alert_content>>
timeoutVars  == <<alarm, sigalrm_handler, wt_result, timeout, sigalrm_delivered>>
vars == <<entry, pc, now, handlerVars, retryVars, classifyVars, calcVars,
          batchVars, execVars, snsVars, lambdaVars, normVars, categorize_error,
          reportVars, timeoutVars>>

----------------------------------------------------------------------------
(* Bounds of the model *)

MaxRetriesBound == 3     \* max_retries of a handler built by a caller: 0..MaxRetriesBound
MaxBaseDelay    == 2     \* base_delay of a handler built by a caller: 1..MaxBaseDelay
MaxClock        == 1     \* the wall clock reads 0..MaxClock
MaxCerts        == 2     \* length of the list given to categorize_certificates

(* Program constants *)

SecondsPerDay      == 86400
DefaultWarningDays == 30

----------------------------------------------------------------------------
(* Python helpers *)

RECURSIVE Pow2(_)
Pow2(n) == IF n = 0 THEN 1 ELSE 2 * Pow2(n - 1)

Range(s) == {s[n] : n \in 1..Len(s)}

SeqsUpTo(S, n) == UNION {[1..m -> S] : m \in 0..n}

\* the concatenation of a sequence of sequences
RECURSIVE Join(_)
Join(ts) == IF ts = <<>> THEN <<>> ELSE Head(ts) \o Join(Tail(ts))

----------------------------------------------------------------------------
(* Exceptions: a class and a message.  Bases gives the direct base classes *)
(* of the exception classes the handler names, as the standard library     *)
(* defines them (ssl.CertificateError derives from both ssl.SSLError and   *)
(* ValueError).                                                            *)

ErrorTypes == {"socket.timeout", "socket.gaierror", "ConnectionRefusedError",
               "ConnectionResetError", "ConnectionError", "OSError",
               "ssl.SSLError", "ssl.CertificateError", "ValueError",
               "UnicodeDecodeError", "TypeError", "KeyError", "Exception"}

Bases(t) ==
    CASE t = "socket.timeout"         -> {"OSError"}
      [] t = "socket.gaierror"        -> {"OSError"}
      [] t = "ConnectionRefusedError" -> {"ConnectionError"}
      [] t = "ConnectionResetError"   -> {"ConnectionError"}
      [] t = "ConnectionError"        -> {"OSError"}
      [] t = "OSError"                -> {"Exception"}
      [] t = "ssl.SSLError"           -> {"OSError"}
      [] t = "ssl.CertificateError"   -> {"ssl.SSLError", "ValueError"}
      [] t = "ValueError"             -> {"Exception"}
      [] t = "UnicodeDecodeError"     -> {"ValueError"}
      [] t = "TypeError"              -> {"Exception"}
      [] t = "KeyError"               -> {"Exception"}
      [] OTHER                        -> {}

RECURSIVE Ancestors(_)
Ancestors(t) == {t} \cup UNION {Ancestors(b) : b \in Bases(t)}

issubclass(t, u) == u \in Ancestors(t)

retryable_errors == {"socket.timeout", "socket.gaierror", "ConnectionRefusedError",
                     "ConnectionResetError", "OSError", "ssl.SSLError"}

non_retryable_errors == {"ssl.CertificateError", "ValueError", "TypeError"}

retryable_messages == {"timeout", "connection refused", "connection reset",
                       "network is unreachable", "no route to host",
                       "temporary failure", "name resolution failed"}

\* The messages exceptions carry in the model, and the phrases of
\* retryable_messages that occur in str(error).lower().
Messages == {"", "Connection timeout occurred", "Connection refused",
             "Invalid configuration", "certificate verify failed"}

PhrasesIn(msg) ==
    CASE msg = "Connection timeout occurred" -> {"timeout"}
      [] msg = "Connection refused"          -> {"connection refused"}
      [] OTHER                               -> {}

Errors == [type : ErrorTypes, msg : Messages]

NoError == [type |-> "None", msg |-> ""]

IsNonRetryableType(error) ==
    \E non_retryable \in non_retryable_errors : issubclass(error.type, non_retryable)

IsRetryableType(error) ==
    \E r \in retryable_errors : issubclass(error.type, r)

\* Variant of _is_retryable_error: retryable classes tested first (C4 must
\* reject it)
_is_retryable_error_retryable_first(error) ==
    IF IsRetryableType(error) THEN TRUE
    ELSE IF IsNonRetryableType(error) THEN FALSE
    ELSE \E m \in retryable_messages : m \in PhrasesIn(error.msg)

_is_retryable_error(error) ==
    IF IsNonRetryableType(error) THEN FALSE
    ELSE IF IsRetryableType(error) THEN TRUE
    ELSE \E m \in retryable_messages : m \in PhrasesIn(error.msg)

----------------------------------------------------------------------------
(* Certificates as ssl.getpeercert returns them, and what func may do     *)

\* notAfter: "ok" (a well-formed date, the time is `expiry`), "missing" or
\* "garbled" (a text strptime rejects).  issuer: the organizationName and
\* commonName entries, "" when absent.
Cert(na, e, org, cn) ==
    [notAfter |-> na, expiry |-> e, organizationName |-> org, commonName |-> cn]

NoCert == Cert("missing", 0, "", "")

Ok(value)    == [kind |-> "ok", value |-> value, error |-> NoError]
Raise(error) == [kind |-> "raise", value |-> NoCert, error |-> error]
NoOutcome    == [kind |-> "none", value |-> NoCert, error |-> NoError]

Err(t, m) == [type |-> t, msg |-> m]

\* What the function given to with_retry by a direct caller may do on one
\* call: return one of two values, or raise an error that is retryable by
\* type, retryable by message only, or not retryable (by type, by type
\* although the message has a keyword, or by default).
CallerOutcomes ==
    { Ok(Cert("ok", 5, "Test CA", "")), Ok(Cert("ok", 7, "", "example.com")),
      Raise(Err("socket.timeout", "Connection timeout occurred")),
      Raise(Err("Exception", "Connection timeout occurred")),
      Raise(Err("ValueError", "Invalid configuration")),
      Raise(Err("ssl.CertificateError", "Connection timeout occurred")),
      Raise(Err("Exception", "Invalid configuration")) }

\* the text of the exception _get_ssl_certificate raises when the peer gave
\* no certificate: it names the domain being checked
NoCertificateText == "no SSL certificate for domain {domain}"

\* What SSLCertificateChecker._get_ssl_certificate may do on one call:
\* return the peer certificate (expired, with a commonName only; expiring
\* on the last day of the window; healthy; without notAfter), time out,
\* fail certificate verification, or get no certificate.
FetchOutcomes ==
    { Ok(Cert("ok", -1, "", "example CN")),
      Ok(Cert("ok", DefaultWarningDays * SecondsPerDay + 1, "Test CA", "")),
      Ok(Cert("ok", (DefaultWarningDays + 1) * SecondsPerDay + 1, "Test CA", "")),
      Ok(Cert("missing", 0, "Test CA", "")),
      Raise(Err("socket.timeout", "timed out")),
      Raise(Err("ssl.CertificateError", "certificate verify failed")),
      Raise(Err("Exception", NoCertificateText)) }

\* What it may do when check_certificate is called by itself: also a
\* certificate whose notAfter strptime rejects
CheckerFetchOutcomes == FetchOutcomes \cup {Ok(Cert("garbled", 0, "Test CA", ""))}

FuncOutcomes ==
    IF entry = "with_retry" THEN CallerOutcomes
    ELSE IF entry = "check_certificate" THEN CheckerFetchOutcomes
    ELSE FetchOutcomes

CallEvent(o)  == [ev |-> "call", delay |-> 0, outcome |-> o]
SleepEvent(d) == [ev |-> "sleep", delay |-> d, outcome |-> NoOutcome]

----------------------------------------------------------------------------
(* NetworkErrorHandler.with_retry *)

\* Variant of ShouldRaise: gives up one attempt early (C2 must reject it)
ShouldRaiseEarly(is_retryable, att, max) == ~is_retryable \/ att + 1 >= max

\* Variant of ShouldRaise: retries non-retryable errors too (C3 must reject it)
ShouldRaiseOnlyWhenExhausted(is_retryable, att, max) == att = max

\* The exception is re-raised when it is not retryable or when this was the
\* last attempt.
ShouldRaise(is_retryable, att, max) == ~is_retryable \/ att = max

\* Variant of BackoffDelay: exponent off by one (C1 must reject it)
BackoffDelayOffByOne(base, att) == base * Pow2(att + 1)

\* delay = self.base_delay * (2 ** attempt)
BackoffDelay(base, att) == base * Pow2(att)

\* One iteration of the loop up to the sleep: call func; return its value,
\* or classify the exception and either re-raise it or go on to sleep.
with_retry_call ==
    /\ pc = "wr_call"
    /\ \E o \in FuncOutcomes :
         /\ events' = Append(events, CallEvent(o))
         /\ IF o.kind = "ok"
            THEN /\ wr_result' = [kind |-> "return", value |-> o.value, error |-> NoError]
                 /\ pc' = "wr_returned"
                 /\ UNCHANGED <<last_exception, retryable>>
            ELSE /\ last_exception' = o.error
                 /\ retryable' = _is_retryable_error(o.error)
                 /\ IF ShouldRaise(retryable', attempt, max_retries)
                    THEN /\ wr_result' = [kind |-> "raise", value |-> NoCert, error |-> o.error]
                         /\ pc' = "wr_raised"
                    ELSE /\ pc' = "wr_sleep"
                         /\ UNCHANGED wr_result
    /\ UNCHANGED <<entry, now, handlerVars, attempt, classifyVars, calcVars,
                   batchVars, execVars>>
    /\ UNCHANGED <<snsVars, lambdaVars, normVars>>
    /\ UNCHANGED <<categorize_error, reportVars, timeoutVars>>

\* delay = base_delay * 2 ** attempt; time.sleep(delay); next iteration
with_retry_sleep ==
    /\ pc = "wr_sleep"
    /\ events' = Append(events, SleepEvent(BackoffDelay(base_delay, attempt)))
    /\ attempt' = attempt + 1
    /\ pc' = "wr_call"
    /\ UNCHANGED <<entry, now, handlerVars, last_exception, retryable, wr_result,
                   classifyVars, calcVars, batchVars, execVars>>
    /\ UNCHANGED <<snsVars, lambdaVars, normVars>>
    /\ UNCHANGED <<categorize_error, reportVars, timeoutVars>>

\* handler._is_retryable_error(error) called by itself
is_retryable_error_call ==
    /\ pc = "is_retryable"
    /\ retryable' = _is_retryable_error(last_exception)
    /\ pc' = "done"
    /\ UNCHANGED <<entry, now, handlerVars, attempt, last_exception, events, wr_result,
                   classifyVars, calcVars, batchVars, execVars>>
    /\ UNCHANGED <<snsVars, lambdaVars, normVars>>
    /\ UNCHANGED <<categorize_error, reportVars, timeoutVars>>

----------------------------------------------------------------------------
(* CertificateInfo and ExpiryCalculator *)

\* Optional[str]: None, or the text prefix + ": " + text (just text when
\* prefix is "").
None == [none |-> TRUE, prefix |-> "", text |-> ""]
Str(prefix, text) == [none |-> FALSE, prefix |-> prefix, text |-> text]
Truthy(s) == ~s.none /\ (s.prefix # "" \/ s.text # "")

CertificateInfo(d, e, n, iss, v, msg) ==
    [domain |-> d, expiry_date |-> e, days_until_expiry |-> n, issuer |-> iss,
     is_valid |-> v, error_message |-> msg]

\* Variant of TimedeltaDays: rounds toward zero (C5 must reject it)
TimedeltaDaysTruncated(delta) ==
    IF delta >= 0 THEN delta \div SecondsPerDay ELSE -((-delta) \div SecondsPerDay)

\* timedelta.days of a difference of `delta` seconds
TimedeltaDays(delta) == delta \div SecondsPerDay

is_expiring_soon(cert_info, w) ==
    0 <= cert_info.days_until_expiry /\ cert_info.days_until_expiry <= w

is_expired(cert_info) == cert_info.days_until_expiry < 0

filter_expiring_certificates(certs, w) ==
    LET T(c) == is_expiring_soon(c, w) IN SelectSeq(certs, T)

filter_expired_certificates(certs) ==
    LET T(c) == is_expired(c) IN SelectSeq(certs, T)

\* Variant of categorize_certificates: the lists are filtered from all
\* records, not from the valid ones (C6 must reject it)
categorize_certificates_unfiltered(certs, w) ==
    LET V(c) == c.is_valid
        valid_certs == SelectSeq(certs, V)
        H(c) == ~is_expired(c) /\ ~is_expiring_soon(c, w)
    IN  [total         |-> Len(certs),
         valid         |-> Len(valid_certs),
         invalid       |-> Len(certs) - Len(valid_certs),
         expired       |-> filter_expired_certificates(certs),
         expiring_soon |-> filter_expiring_certificates(certs, w),
         healthy       |-> SelectSeq(certs, H)]

categorize_certificates(certs, w) ==
    LET V(c) == c.is_valid
        valid_certs == SelectSeq(certs, V)
        H(c) == ~is_expired(c) /\ ~is_expiring_soon(c, w)
    IN  [total         |-> Len(certs),
         valid         |-> Len(valid_certs),
         invalid       |-> Len(certs) - Len(valid_certs),
         expired       |-> filter_expired_certificates(valid_certs),
         expiring_soon |-> filter_expiring_certificates(valid_certs, w),
         healthy       |-> SelectSeq(valid_certs, H)]

NoCategorized ==
    [total |-> 0, valid |-> 0, invalid |-> 0, expired |-> <<>>,
     expiring_soon |-> <<>>, healthy |-> <<>>]

\* calculator.calculate_days_until_expiry(expiry_date): reads the clock
calculate_days_until_expiry ==
    /\ pc = "calc_days"
    /\ \E t \in now..MaxClock :
         /\ now' = t
         /\ days_until_expiry' = TimedeltaDays(expiry_date - t)
    /\ pc' = "predicates"
    /\ UNCHANGED <<entry, handlerVars, retryVars, expiry_date, expired, expiring_soon,
                   calcVars, batchVars, execVars>>
    /\ UNCHANGED <<snsVars, lambdaVars, normVars>>
    /\ UNCHANGED <<categorize_error, reportVars, timeoutVars>>

\* calculator.is_expired(cert_info), calculator.is_expiring_soon(cert_info)
\* and calculator.categorize_certificates([cert_info]) on the record built
\* from that day count
classify_predicates ==
    /\ pc = "predicates"
    /\ LET cert_info == CertificateInfo("a.example", expiry_date, days_until_expiry,
                                        "Test CA", TRUE, None)
       IN  /\ expired' = is_expired(cert_info)
           /\ expiring_soon' = is_expiring_soon(cert_info, warning_days)
           /\ certificates' = <<cert_info>>
           /\ categorized' = categorize_certificates(<<cert_info>>, warning_days)
    /\ pc' = "done"
    /\ UNCHANGED <<entry, now, handlerVars, retryVars, expiry_date, days_until_expiry,
                   warning_days, batchVars, execVars>>
    /\ UNCHANGED <<snsVars, lambdaVars, normVars>>
    /\ UNCHANGED <<categorize_error, reportVars, timeoutVars>>

\* calculator.categorize_certificates(certificates) called by itself
categorize_call ==
    /\ pc = "categorize"
    /\ categorized' = categorize_certificates(certificates, warning_days)
    /\ pc' = "done"
    /\ UNCHANGED <<entry, now, handlerVars, retryVars, classifyVars, warning_days,
                   certificates, batchVars, execVars>>
    /\ UNCHANGED <<snsVars, lambdaVars, normVars>>
    /\ UNCHANGED <<categorize_error, reportVars, timeoutVars>>

----------------------------------------------------------------------------
(* SSLCertificateChecker.check_certificate *)

CheckerMaxRetries == 3
CheckerBaseDelay  == 1

\* SSLCertificateChecker._clean_domain on the domain texts of the model
_clean_domain(domain) ==
    CASE domain = "https://A.example/x" -> "a.example"
      [] OTHER                          -> domain

\* _parse_expiry_date: the expiry time, or the exception raised
_parse_expiry_date(cert) ==
    CASE cert.notAfter = "missing" -> Raise(Err("Exception", "no expiry in certificate"))
      [] cert.notAfter = "garbled" -> Raise(Err("ValueError", "time data does not match format"))
      [] OTHER                     -> Ok(cert)

_parse_issuer(cert) ==
    IF cert.organizationName # "" THEN cert.organizationName
    ELSE IF cert.commonName # "" THEN cert.commonName
    ELSE "Unknown Issuer"

\* The record check_certificate returns once with_retry has ended as `wr`,
\* the clock reading t.
CheckCertificateRecord(domain, cleaned, wr, t) ==
    LET parsed == IF wr.kind = "return" THEN _parse_expiry_date(wr.value)
                  ELSE Raise(wr.error)
    IN  IF parsed.kind = "ok"
        THEN CertificateInfo(cleaned, wr.value.expiry,
                             TimedeltaDays(wr.value.expiry - t),
                             _parse_issuer(wr.value), TRUE, None)
        ELSE CertificateInfo(domain, t, -1, "Unknown", FALSE,
                             Str(parsed.error.type, parsed.error.msg))

----------------------------------------------------------------------------
(* LoggerService *)

NoStats == [total_domains |-> 0, successful_checks |-> 0, failed_checks |-> 0,
            error_count |-> 0]

log_check_start(stats, domain_count) == [stats EXCEPT !.total_domains = domain_count]

log_certificate_info(stats, cert_info) ==
    IF cert_info.is_valid
    THEN [stats EXCEPT !.successful_checks = @ + 1]
    ELSE [stats EXCEPT !.failed_checks = @ + 1]

log_error(stats) == [stats EXCEPT !.error_count = @ + 1]

----------------------------------------------------------------------------
(* SSLCertificateMonitor._check_certificates_batch *)

DefaultBatchSize == 10

Min(a, b) == IF a <= b THEN a ELSE b

TotalBatches(n, size) == (n + size - 1) \div size
BatchNum(start, size) == start \div size + 1
BatchLen(n, start, size) == Min(size, n - start)

CurrentDomain == domains[i + j + 1]

\* raised: the call of check_certificate ended with an exception
CheckEvent(d, r) == [ev |-> "check", domain |-> d, raised |-> r]
PauseEvent       == [ev |-> "pause", domain |-> "", raised |-> FALSE]

\* Variant of PauseAfterBatch: the pause follows every batch, the last one
\* included (C25 must reject it)
PauseAfterBatchAlways(n, start, size) == TRUE

\* if batch_num < total_batches: the batch starting at index start is not
\* the last one of n domains
PauseAfterBatch(n, start, size) == BatchNum(start, size) < TotalBatches(n, size)

\* Where the loops go once the current domain has its record: the next
\* domain of the batch, the pause after a batch that is not the last, or
\* the next iteration of the outer loop.
AfterDomain ==
    LET n == Len(domains) IN
    IF j + 1 < BatchLen(n, i, batch_size)
    THEN /\ pc' = "check" /\ i' = i /\ j' = j + 1
    ELSE IF PauseAfterBatch(n, i, batch_size)
    THEN /\ pc' = "pause" /\ i' = i /\ j' = j
    ELSE /\ pc' = (IF i + batch_size < n THEN "check" ELSE "batch_return")
         /\ i' = i + batch_size /\ j' = 0

\* monitor._check_certificates_batch(domains, batch_size) called by itself
check_certificates_batch_begin ==
    /\ pc = "batch_begin"
    /\ certificate_results' = <<>>
    /\ i' = 0 /\ j' = 0
    /\ pc' = (IF 0 < Len(domains) THEN "check" ELSE "batch_return")
    /\ UNCHANGED <<entry, now, handlerVars, retryVars, classifyVars, calcVars,
                   domains, domain_error, batch_size, clean_domain, batch_log, execVars>>
    /\ UNCHANGED <<snsVars, lambdaVars, normVars>>
    /\ UNCHANGED <<categorize_error, reportVars, timeoutVars>>

\* check_certificate(domain) up to the call of with_retry
check_certificate_begin ==
    /\ pc = "check"
    /\ batch_log' = Append(batch_log, CheckEvent(CurrentDomain, FALSE))
    /\ clean_domain' = _clean_domain(CurrentDomain)
    /\ attempt' = 0 /\ last_exception' = NoError /\ events' = <<>>
    /\ wr_result' = NoOutcome
    /\ pc' = "wr_call"
    /\ UNCHANGED <<entry, now, handlerVars, retryable, classifyVars, calcVars,
                   domains, domain_error, batch_size, i, j, certificate_results, execVars>>
    /\ UNCHANGED <<snsVars, lambdaVars, normVars>>
    /\ UNCHANGED <<categorize_error, reportVars, timeoutVars>>

\* check_certificate from the end of with_retry to its return, then the
\* orchestrator's append, log_certificate_info and loop step
check_certificate_end ==
    /\ pc \in {"wr_returned", "wr_raised"}
    /\ entry \in {"_check_certificates_batch", "execute"}
    /\ \E t \in now..MaxClock :
         LET cert_info == CheckCertificateRecord(CurrentDomain, clean_domain, wr_result, t)
         IN  /\ now' = t
             /\ certificate_results' = Append(certificate_results, cert_info)
             /\ execution_stats' = log_certificate_info(execution_stats, cert_info)
    /\ AfterDomain
    /\ attempt' = 0 /\ last_exception' = NoError /\ events' = <<>>
    /\ wr_result' = NoOutcome /\ retryable' = FALSE
    /\ clean_domain' = ""
    /\ UNCHANGED <<entry, handlerVars, classifyVars, calcVars, domains, domain_error,
                   batch_size, batch_log, notification_sent, notify_log, start_time,
                   result>>
    /\ UNCHANGED <<snsVars, lambdaVars, normVars>>
    /\ UNCHANGED <<categorize_error, reportVars, timeoutVars>>

\* Variant of check_certificate_return: a certificate that cannot be parsed
\* sends check_certificate back to the fetch while attempts remain (C26 must
\* reject it)
check_certificate_return_retrying_parse ==
    /\ pc \in {"wr_returned", "wr_raised"}
    /\ entry = "check_certificate"
    /\ IF /\ wr_result.kind = "return"
          /\ _parse_expiry_date(wr_result.value).kind = "raise"
          /\ attempt < max_retries
       THEN /\ pc' = "wr_sleep"
            /\ UNCHANGED <<now, certificate_results>>
       ELSE /\ \E t \in now..MaxClock :
                 /\ now' = t
                 /\ certificate_results' =
                      <<CheckCertificateRecord(CurrentDomain, clean_domain, wr_result, t)>>
            /\ pc' = "checked"
    /\ UNCHANGED <<entry, handlerVars, retryVars, classifyVars, calcVars, domains,
                   domain_error, batch_size, i, j, clean_domain, batch_log, execVars>>
    /\ UNCHANGED <<snsVars, lambdaVars, normVars>>
    /\ UNCHANGED <<categorize_error, reportVars, timeoutVars>>

\* checker.check_certificate(domain) called by itself, from the end of
\* with_retry to its return: the record of the certificate, or the invalid
\* record of the except clause
check_certificate_return ==
    /\ pc \in {"wr_returned", "wr_raised"}
    /\ entry = "check_certificate"
    /\ \E t \in now..MaxClock :
         /\ now' = t
         /\ certificate_results' =
              <<CheckCertificateRecord(CurrentDomain, clean_domain, wr_result, t)>>
    /\ pc' = "checked"
    /\ UNCHANGED <<entry, handlerVars, retryVars, classifyVars, calcVars, domains,
                   domain_error, batch_size, i, j, clean_domain, batch_log, execVars>>
    /\ UNCHANGED <<snsVars, lambdaVars, normVars>>
    /\ UNCHANGED <<categorize_error, reportVars, timeoutVars>>

\* What a checker that raises (another implementation of the checker
\* interface, as the tests inject) raises
CheckerRaises == {Err("Exception", "Connection failed"), Err("Exception", "")}

\* Variant of check_certificate_raises: no error record is appended (C8
\* must reject it)
check_certificate_raises_dropping_record ==
    /\ pc = "check"
    /\ entry \in {"_check_certificates_batch", "execute"}
    /\ \E t \in now..MaxClock :
         /\ now' = t
         /\ execution_stats' = log_error(execution_stats)
    /\ batch_log' = Append(batch_log, CheckEvent(CurrentDomain, TRUE))
    /\ AfterDomain
    /\ UNCHANGED <<entry, handlerVars, retryVars, classifyVars, calcVars, domains,
                   domain_error, batch_size, clean_domain, certificate_results,
                   notification_sent, notify_log, start_time, result>>
    /\ UNCHANGED <<snsVars, lambdaVars, normVars>>
    /\ UNCHANGED <<categorize_error, reportVars, timeoutVars>>

\* check_certificate raises: log_error, the error record is appended
check_certificate_raises ==
    /\ pc = "check"
    /\ entry \in {"_check_certificates_batch", "execute"}
    /\ \E e \in CheckerRaises, t \in now..MaxClock :
         /\ now' = t
         /\ execution_stats' = log_error(execution_stats)
         /\ certificate_results' =
                Append(certificate_results,
                       CertificateInfo(CurrentDomain, t, -1, "Unknown", FALSE, Str("", e.msg)))
    /\ batch_log' = Append(batch_log, CheckEvent(CurrentDomain, TRUE))
    /\ AfterDomain
    /\ UNCHANGED <<entry, handlerVars, retryVars, classifyVars, calcVars, domains,
                   domain_error, batch_size, clean_domain, notification_sent, notify_log,
                   start_time, result>>
    /\ UNCHANGED <<snsVars, lambdaVars, normVars>>
    /\ UNCHANGED <<categorize_error, reportVars, timeoutVars>>

\* time.sleep(0.1) between two batches, then the next iteration
batch_pause ==
    /\ pc = "pause"
    /\ batch_log' = Append(batch_log, PauseEvent)
    /\ i' = i + batch_size /\ j' = 0
    /\ pc' = (IF i + batch_size < Len(domains) THEN "check" ELSE "batch_return")
    /\ UNCHANGED <<entry, now, handlerVars, retryVars, classifyVars, calcVars,
                   domains, domain_error, batch_size, clean_domain, certificate_results,
                   execVars>>
    /\ UNCHANGED <<snsVars, lambdaVars, normVars>>
    /\ UNCHANGED <<categorize_error, reportVars, timeoutVars>>

----------------------------------------------------------------------------
(* SSLCertificateMonitor.execute *)

BatchThreshold == 20

CheckResult(total, ok, failed, expiring, expired_list, errs, time) ==
    [total_domains |-> total, successful_checks |-> ok, failed_checks |-> failed,
     expiring_domains |-> expiring, expired_domains |-> expired_list,
     errors |-> errs, execution_time |-> time]

NoResult == CheckResult(0, 0, 0, <<>>, <<>>, <<>>, 0)

\* errors=["..."] of the early return: the 'no domains found' message
NoDomainsMessage == Str("", "no domains found to check")

\* [cert.error_message for cert in certificate_results if cert.error_message]
ErrorMessages(certs) ==
    LET HasMessage(c) == Truthy(c.error_message)
        withMessage == SelectSeq(certs, HasMessage)
    IN  [n \in 1..Len(withMessage) |-> withMessage[n].error_message]

IsValid(c) == c.is_valid
IsInvalid(c) == ~c.is_valid

\* len([cert for cert in certificate_results if cert.is_valid])
SuccessfulCount(certs) == Len(SelectSeq(certs, IsValid))

\* Variant of FailedCount: counts the records with an error message (C7
\* must reject it)
FailedCountByMessage(certs) == Len(ErrorMessages(certs))

\* len([cert for cert in certificate_results if not cert.is_valid])
FailedCount(certs) == Len(SelectSeq(certs, IsInvalid))

\* Variant of IsEmptyList: the early return is never taken (C10 must reject it)
IsEmptyListNever(ds) == FALSE

\* `if not domains`
IsEmptyList(ds) == ds = <<>>

\* the CheckResult of the early return
EmptyResult == CheckResult(0, 0, 0, <<>>, <<>>, <<NoDomainsMessage>>, 0)

\* Variant of CatastrophicResult: the error text carries the class name (C9
\* must reject it)
CatastrophicResultWithType(e, time) ==
    CheckResult(0, 0, 0, <<>>, <<>>, <<Str(e.type, e.msg)>>, time)

\* the CheckResult built by the except clause of execute
CatastrophicResult(e, time) ==
    CheckResult(0, 0, 0, <<>>, <<>>, <<Str("", e.msg)>>, time)

NotifyCall(name, records, summary, outcome) ==
    [call |-> name, records |-> records, summary |-> summary, outcome |-> outcome]

\* execute up to the batch loop: start_time, get_domains, the early return
\* for an empty list, log_check_start; the except clause when get_domains
\* raises
execute_begin ==
    /\ pc = "execute_begin"
    /\ \E t \in now..MaxClock :
         /\ start_time' = t
         /\ IF domain_error # NoError
            THEN \E t2 \in t..MaxClock :
                   /\ now' = t2
                   /\ result' = CatastrophicResult(domain_error, t2 - t)
                   /\ pc' = "returned"
                   /\ UNCHANGED <<execution_stats, certificate_results, i, j>>
            ELSE IF IsEmptyList(domains)
            THEN /\ now' = t
                 /\ result' = EmptyResult
                 /\ pc' = "returned"
                 /\ UNCHANGED <<execution_stats, certificate_results, i, j>>
            ELSE /\ now' = t
                 /\ execution_stats' = log_check_start(execution_stats, Len(domains))
                 /\ certificate_results' = <<>>
                 /\ i' = 0 /\ j' = 0
                 /\ pc' = (IF 0 < Len(domains) THEN "check" ELSE "batch_return")
                 /\ UNCHANGED result
    /\ UNCHANGED <<entry, handlerVars, retryVars, classifyVars, calcVars, domains,
                   domain_error, batch_size, clean_domain, batch_log, notification_sent,
                   notify_log>>
    /\ UNCHANGED <<snsVars, lambdaVars, normVars>>
    /\ UNCHANGED <<categorize_error, reportVars, timeoutVars>>

\* Variant of NotificationDomains: the two lists in the other order (C12
\* must reject it)
NotificationDomainsSoonFirst(c) == c.expiring_soon \o c.expired

\* notification_domains = categorized['expired'] + categorized['expiring_soon']
NotificationDomains(c) == c.expired \o c.expiring_soon

\* Variant of UseBatchSending: the threshold itself already batches (C13
\* must reject it)
UseBatchSendingAtThreshold(n) == n >= BatchThreshold

\* `if len(notification_domains) > 20`
UseBatchSending(n) == n > BatchThreshold

\* the method of the notification service _send_notifications calls
AlertMethod(records) ==
    IF UseBatchSending(Len(records)) THEN "send_batch_notifications"
    ELSE "send_expiry_notification"

\* categorize_certificates(certificate_results), then _send_notifications:
\* nothing to send, or one call of the notification service, which sends,
\* fails or raises; when it raises, _send_error_notification publishes the
\* fallback message, whose failure is swallowed
execute_send_notifications ==
    /\ pc = "batch_return"
    /\ entry = "execute"
    /\ categorized' = categorize_certificates(certificate_results, warning_days)
    /\ LET records == NotificationDomains(categorized')
           name == AlertMethod(records)
       IN  IF records = <<>>
           THEN /\ notification_sent' = TRUE
                /\ UNCHANGED notify_log
           ELSE \E outcome \in {"sent", "failed", "raised"} :
                  /\ notification_sent' = (outcome = "sent")
                  /\ IF outcome = "raised"
                     THEN \E fallback \in {"sent", "raised"} :
                            notify_log' = notify_log \o
                              << NotifyCall(name, records, NoStats, outcome),
                                 NotifyCall("sns_client.publish", <<>>, NoStats, fallback) >>
                     ELSE notify_log' = Append(notify_log,
                              NotifyCall(name, records, NoStats, outcome))
    /\ pc' = "status_report"
    /\ UNCHANGED <<entry, now, handlerVars, retryVars, classifyVars, warning_days,
                   certificates, batchVars, execution_stats, start_time, result>>
    /\ UNCHANGED <<snsVars, lambdaVars, normVars>>
    /\ UNCHANGED <<categorize_error, reportVars, timeoutVars>>

\* What a categorize_certificates that raises (an injected calculator)
\* raises
CategorizeRaises == {Err("Exception", "categorize failed")}

\* Variant of execute_categorize_raises: the exception leaves execute (C27
\* must reject it)
execute_categorize_raises_propagating ==
    /\ pc = "batch_return"
    /\ entry = "execute"
    /\ \E e \in CategorizeRaises : categorize_error' = e
    /\ pc' = "raised"
    /\ UNCHANGED <<entry, now, handlerVars, retryVars, classifyVars, calcVars,
                   batchVars, execVars>>
    /\ UNCHANGED <<snsVars, lambdaVars, normVars>>
    /\ UNCHANGED <<reportVars, timeoutVars>>

\* categorize_certificates(certificate_results) raises: the except clause of
\* execute returns the CheckResult of a catastrophic failure
execute_categorize_raises ==
    /\ pc = "batch_return"
    /\ entry = "execute"
    /\ \E e \in CategorizeRaises, t \in now..MaxClock :
         /\ categorize_error' = e
         /\ now' = t
         /\ result' = CatastrophicResult(e, t - start_time)
    /\ pc' = "returned"
    /\ UNCHANGED <<entry, handlerVars, retryVars, classifyVars, calcVars, batchVars,
                   execution_stats, notification_sent, notify_log, start_time>>
    /\ UNCHANGED <<snsVars, lambdaVars, normVars>>
    /\ UNCHANGED <<reportVars, timeoutVars>>

\* Variant of execute_send_status_report: the report is sent only when the
\* alert went out (C11 must reject it)
execute_send_status_report_when_alert_sent ==
    /\ pc = "status_report"
    /\ IF notification_sent
       THEN \E outcome \in {"sent", "failed", "raised"} :
              notify_log' = Append(notify_log,
                  NotifyCall("send_status_report", certificate_results, execution_stats,
                             outcome))
       ELSE UNCHANGED notify_log
    /\ pc' = "finish"
    /\ UNCHANGED <<entry, now, handlerVars, retryVars, classifyVars, calcVars, batchVars,
                   execution_stats, notification_sent, start_time, result>>
    /\ UNCHANGED <<snsVars, lambdaVars, normVars>>
    /\ UNCHANGED <<categorize_error, reportVars, timeoutVars>>

\* _send_status_report(certificate_results): the summary of the logger and
\* all records go to send_status_report, which sends, fails or raises
execute_send_status_report ==
    /\ pc = "status_report"
    /\ \E outcome \in {"sent", "failed", "raised"} :
         notify_log' = Append(notify_log,
             NotifyCall("send_status_report", certificate_results, execution_stats, outcome))
    /\ pc' = "finish"
    /\ UNCHANGED <<entry, now, handlerVars, retryVars, classifyVars, calcVars, batchVars,
                   execution_stats, notification_sent, start_time, result>>
    /\ UNCHANGED <<snsVars, lambdaVars, normVars>>
    /\ UNCHANGED <<categorize_error, reportVars, timeoutVars>>

\* log_check_end, end_time, the CheckResult
execute_end ==
    /\ pc = "finish"
    /\ \E t \in now..MaxClock :
         /\ now' = t
         /\ result' = CheckResult(Len(domains),
                                  SuccessfulCount(certificate_results),
                                  FailedCount(certificate_results),
                                  categorized.expiring_soon,
                                  categorized.expired,
                                  ErrorMessages(certificate_results),
                                  t - start_time)
    /\ pc' = "returned"
    /\ UNCHANGED <<entry, handlerVars, retryVars, classifyVars, calcVars, batchVars,
                   execution_stats, notification_sent, notify_log, start_time>>
    /\ UNCHANGED <<snsVars, lambdaVars, normVars>>
    /\ UNCHANGED <<categorize_error, reportVars, timeoutVars>>

----------------------------------------------------------------------------
(* SNSNotificationService *)

PublishDefaultRetries == 3      \* _publish_with_retry(..., max_retries: int = 3)
SnsDefaultBatchSize   == 10     \* send_batch_notifications(..., batch_size: int = 10)

sns_retryable_errors == {"Throttling", "ServiceUnavailable", "InternalError",
                         "RequestTimeout"}

\* SNSNotificationService._is_retryable_error(error_code)
sns_is_retryable_error(error_code) == error_code \in sns_retryable_errors

\* What sns_client.publish may do on one call: return a response, raise a
\* ClientError carrying an error code, or raise another exception.
PubOk            == [kind |-> "ok", code |-> ""]
ClientError(c)   == [kind |-> "client_error", code |-> c]
PubException     == [kind |-> "exception", code |-> ""]
NoPublish        == [kind |-> "none", code |-> ""]

ErrorCodes == sns_retryable_errors \cup {"NotFound", "AccessDenied", "InvalidParameter"}

CallerPublishOutcomes == {PubOk, PubException} \cup {ClientError(c) : c \in ErrorCodes}

ServicePublishOutcomes == {PubOk, PubException, ClientError("Throttling"),
                           ClientError("NotFound")}

PublishOutcomes ==
    IF entry = "_publish_with_retry" THEN CallerPublishOutcomes
    ELSE ServicePublishOutcomes

PublishEvent(o) == [ev |-> "publish", delay |-> 0, outcome |-> o]
WaitEvent(d)    == [ev |-> "wait", delay |-> d, outcome |-> NoPublish]

\* Variant of PublishRetries: every failure is retried while attempts remain
\* (C15 must reject it)
PublishRetriesAnyFailure(o, att, max) == o.kind # "ok" /\ att < max

\* Whether the loop waits and goes on after a publish that ended as o: a
\* ClientError with a retryable code, or any other exception, while
\* attempt < max_retries.
PublishRetries(o, att, max) ==
    CASE o.kind = "client_error" -> sns_is_retryable_error(o.code) /\ att < max
      [] o.kind = "exception"    -> att < max
      [] OTHER                   -> FALSE

\* wait_time = 2 ** attempt
wait_time(att) == Pow2(att)

\* One iteration of the loop of _publish_with_retry up to the wait
publish_attempt ==
    /\ pc = "pub_call"
    /\ \E o \in PublishOutcomes :
         /\ pub_log' = Append(pub_log, PublishEvent(o))
         /\ IF o.kind = "ok"
            THEN /\ pub_result' = "true"
                 /\ pc' = "pub_done"
            ELSE IF PublishRetries(o, pub_attempt, pub_max_retries)
            THEN /\ pc' = "pub_wait"
                 /\ UNCHANGED pub_result
            ELSE /\ pub_result' = "false"
                 /\ pc' = "pub_done"
    /\ UNCHANGED <<entry, now, handlerVars, retryVars, classifyVars, calcVars, batchVars,
                   execVars, configuration_valid, service_error, pub_max_retries,
                   pub_attempt, notification_domains, sns_batch_size, batch_start,
                   success_count, sent_log, sn_result, lambdaVars, normVars>>
    /\ UNCHANGED <<categorize_error, reportVars, timeoutVars>>

\* time.sleep(wait_time); continue
publish_wait ==
    /\ pc = "pub_wait"
    /\ pub_log' = Append(pub_log, WaitEvent(wait_time(pub_attempt)))
    /\ pub_attempt' = pub_attempt + 1
    /\ pc' = "pub_call"
    /\ UNCHANGED <<entry, now, handlerVars, retryVars, classifyVars, calcVars, batchVars,
                   execVars, configuration_valid, service_error, pub_max_retries,
                   pub_result, notification_domains, sns_batch_size, batch_start,
                   success_count, sent_log, sn_result, lambdaVars, normVars>>
    /\ UNCHANGED <<categorize_error, reportVars, timeoutVars>>

BoolText(b) == IF b THEN "true" ELSE "false"

\* One call of send_expiry_notification: the records given, what it
\* returned, and whether _publish_with_retry used up all its attempts
SentCall(records, r, ex) == [records |-> records, result |-> r, exhausted |-> ex]

\* send_batch_notifications slices the list when it has more than batch_size
\* records; _send_notifications calls it only above the threshold and
\* calls send_expiry_notification on the whole list otherwise.
Batching ==
    /\ entry = "send_batch_notifications"
         \/ UseBatchSending(Len(notification_domains))
    /\ Len(notification_domains) > sns_batch_size

\* batch = expiring_domains[i:i + batch_size]
CurrentBatch ==
    IF Batching
    THEN SubSeq(notification_domains, batch_start + 1,
                Min(batch_start + sns_batch_size, Len(notification_domains)))
    ELSE notification_domains

\* Variant of BatchesSucceeded: one successful batch is enough (C14 must
\* reject it)
BatchesSucceededAny(count, total) == count >= 1

\* return success_count == total_batches
BatchesSucceeded(count, total) == count = total

\* What follows a call of send_expiry_notification that returned r: the next
\* batch, or the return of the service method
AfterSend(r) ==
    LET n     == Len(notification_domains)
        count == success_count + (IF r THEN 1 ELSE 0)
    IN  IF Batching
        THEN /\ success_count' = count
             /\ batch_start' = batch_start + sns_batch_size
             /\ IF batch_start + sns_batch_size < n
                THEN /\ pc' = "sen_call"
                     /\ UNCHANGED sn_result
                ELSE /\ sn_result' = BoolText(BatchesSucceeded(count,
                                                  TotalBatches(n, sns_batch_size)))
                     /\ pc' = "service_returned"
        ELSE /\ sn_result' = BoolText(r)
             /\ pc' = "service_returned"
             /\ UNCHANGED <<success_count, batch_start>>

\* service.send_batch_notifications(expiring_domains, batch_size) called by
\* itself: up to the first call of send_expiry_notification
send_batch_notifications_begin ==
    /\ pc = "sb_begin"
    /\ batch_start' = 0
    /\ success_count' = 0
    /\ IF notification_domains = <<>>
       THEN /\ sn_result' = "true"
            /\ pc' = "service_returned"
       ELSE /\ pc' = "sen_call"
            /\ UNCHANGED sn_result
    /\ UNCHANGED <<entry, now, handlerVars, retryVars, classifyVars, calcVars, batchVars,
                   execVars, configuration_valid, service_error, pub_max_retries,
                   pub_attempt, pub_log, pub_result, notification_domains,
                   sns_batch_size, sent_log, lambdaVars, normVars>>
    /\ UNCHANGED <<categorize_error, reportVars, timeoutVars>>

\* send_expiry_notification(batch) up to the call of _publish_with_retry:
\* an empty list is reported sent, an invalid configuration is reported not
\* sent, both without publishing
send_expiry_notification_begin ==
    /\ pc = "sen_call"
    /\ IF CurrentBatch = <<>>
       THEN /\ sent_log' = Append(sent_log, SentCall(CurrentBatch, TRUE, FALSE))
            /\ AfterSend(TRUE)
            /\ UNCHANGED <<pub_max_retries, pub_attempt, pub_log, pub_result>>
       ELSE IF ~configuration_valid
       THEN /\ sent_log' = Append(sent_log, SentCall(CurrentBatch, FALSE, FALSE))
            /\ AfterSend(FALSE)
            /\ UNCHANGED <<pub_max_retries, pub_attempt, pub_log, pub_result>>
       ELSE /\ pub_max_retries' = PublishDefaultRetries
            /\ pub_attempt' = 0
            /\ pub_log' = <<>>
            /\ pub_result' = "none"
            /\ pc' = "pub_call"
            /\ UNCHANGED <<sent_log, sn_result, success_count, batch_start>>
    /\ UNCHANGED <<entry, now, handlerVars, retryVars, classifyVars, calcVars, batchVars,
                   execVars, configuration_valid, service_error, notification_domains,
                   sns_batch_size, lambdaVars, normVars>>
    /\ UNCHANGED <<categorize_error, reportVars, timeoutVars>>

\* send_expiry_notification returns what _publish_with_retry returned
send_expiry_notification_end ==
    /\ pc = "pub_done"
    /\ entry \in {"send_batch_notifications", "_send_notifications"}
    /\ sent_log' = Append(sent_log,
           SentCall(CurrentBatch, pub_result = "true",
                    pub_result = "false"
                      /\ Len(SelectSeq(pub_log, LAMBDA e : e.ev = "publish"))
                           = pub_max_retries + 1))
    /\ AfterSend(pub_result = "true")
    /\ pub_attempt' = 0
    /\ pub_log' = <<>>
    /\ pub_result' = "none"
    /\ UNCHANGED <<entry, now, handlerVars, retryVars, classifyVars, calcVars, batchVars,
                   execVars, configuration_valid, service_error, pub_max_retries,
                   notification_domains, sns_batch_size, lambdaVars, normVars>>
    /\ UNCHANGED <<categorize_error, reportVars, timeoutVars>>

----------------------------------------------------------------------------
(* SSLCertificateMonitor._send_notifications *)

\* `if not (categorized['expired'] or categorized['expiring_soon'])`
NothingToSend(c) == ~(c.expired # <<>> \/ c.expiring_soon # <<>>)

\* _send_notifications(categorized) called by itself, up to the call of the
\* notification service; when that call raises (a service other than
\* SNSNotificationService, as the tests inject), the except clause runs
\* _send_error_notification, whose publish succeeds or raises.
send_notifications_begin ==
    /\ pc = "sn_begin"
    /\ IF NothingToSend(categorized)
       THEN /\ notification_sent' = TRUE
            /\ pc' = "sn_returned"
            /\ UNCHANGED <<notify_log, notification_domains>>
       ELSE /\ notification_domains' = NotificationDomains(categorized)
            /\ IF service_error # NoError
               THEN /\ notification_sent' = FALSE
                    /\ \E fallback \in {"sent", "raised"} :
                         notify_log' = notify_log \o
                           << NotifyCall(AlertMethod(notification_domains'),
                                         notification_domains', NoStats, "raised"),
                              NotifyCall("sns_client.publish", <<>>, NoStats, fallback) >>
                    /\ pc' = "sn_returned"
               ELSE /\ pc' = "sen_call"
                    /\ UNCHANGED <<notification_sent, notify_log>>
    /\ UNCHANGED <<entry, now, handlerVars, retryVars, classifyVars, calcVars, batchVars,
                   execution_stats, start_time, result, configuration_valid,
                   service_error, pub_max_retries, pub_attempt, pub_log, pub_result,
                   sns_batch_size, batch_start, success_count, sent_log, sn_result,
                   lambdaVars, normVars>>
    /\ UNCHANGED <<categorize_error, reportVars, timeoutVars>>

\* the service method returned: log_notification_sent, return notification_sent
send_notifications_end ==
    /\ pc = "service_returned"
    /\ entry = "_send_notifications"
    /\ notification_sent' = (sn_result = "true")
    /\ notify_log' = Append(notify_log,
           NotifyCall(AlertMethod(notification_domains), notification_domains, NoStats,
                      IF sn_result = "true" THEN "sent" ELSE "failed"))
    /\ pc' = "sn_returned"
    /\ UNCHANGED <<entry, now, handlerVars, retryVars, classifyVars, calcVars, batchVars,
                   execution_stats, start_time, result, snsVars, lambdaVars, normVars>>
    /\ UNCHANGED <<categorize_error, reportVars, timeoutVars>>

----------------------------------------------------------------------------
(* lambda_handler *)

StatusOk           == 200
StatusError        == 500
ResponseErrorLimit == 5      \* 'errors': result.errors[:5]

SuccessMessage  == "SSL Certificate Monitor executed successfully"
FailureMessage  == "SSL Certificate Monitor failed to execute"
CriticalMessage == "SSL Certificate Monitor encountered a critical error"

\* What lambda_handler does: the response it returns, or the exception it
\* lets through
Response(code, msg, s, errs, err) ==
    [raised |-> FALSE, statusCode |-> code, message |-> msg, summary |-> s,
     errors |-> errs, error |-> err]

Propagated(e) ==
    [raised |-> TRUE, statusCode |-> 0, message |-> "", summary |-> NoStats,
     errors |-> <<>>, error |-> Str("", e.msg)]

NoResponse == Response(0, "", NoStats, <<>>, None)

\* result.errors[:5]
FirstErrors(errs) == SubSeq(errs, 1, Min(ResponseErrorLimit, Len(errs)))

\* Variant of IsFailure: any error makes the run a failure (C18 must reject it)
IsFailureOnAnyError(r) == r.errors # <<>>

\* `if result.total_domains == 0 and result.errors`
IsFailure(r) == r.total_domains = 0 /\ r.errors # <<>>

\* the 'summary' of the response body: the three counts
ResponseSummary(r) ==
    [total_domains |-> r.total_domains, successful_checks |-> r.successful_checks,
     failed_checks |-> r.failed_checks, error_count |-> 0]

\* the response built from the CheckResult
ResultResponse(r) ==
    IF IsFailure(r)
    THEN Response(StatusError, FailureMessage, ResponseSummary(r),
                  FirstErrors(r.errors), None)
    ELSE Response(StatusOk, SuccessMessage, ResponseSummary(r),
                  FirstErrors(r.errors), None)

\* Variant of CriticalResponse: a failure of the logging escapes (C19 must
\* reject it)
CriticalResponseLoggingEscapes(e, log_fails) ==
    IF log_fails THEN Propagated(Err("Exception", "logging failed"))
    ELSE Response(StatusError, CriticalMessage, NoStats, <<>>, Str("", e.msg))

\* the except clause: the error response; logging the error is tried and
\* whatever it raises is dropped
CriticalResponse(e, log_fails) ==
    Response(StatusError, CriticalMessage, NoStats, <<>>, Str("", e.msg))

\* lambda_handler(event, context): the monitor is built, execute runs, the
\* response is built; an exception of any of these goes to the except clause
lambda_handler ==
    /\ pc = "lh_begin"
    /\ response' =
         IF ctor_error # NoError THEN CriticalResponse(ctor_error, logging_fails)
         ELSE IF execute_error # NoError
         THEN CriticalResponse(execute_error, logging_fails)
         ELSE ResultResponse(result)
    /\ pc' = "lh_returned"
    /\ UNCHANGED <<entry, now, handlerVars, retryVars, classifyVars, calcVars, batchVars,
                   execVars, snsVars, ctor_error, execute_error, logging_fails,
                   normVars>>
    /\ UNCHANGED <<categorize_error, reportVars, timeoutVars>>

----------------------------------------------------------------------------
(* DomainConfigManager *)

\* A text is a sequence of characters; an optional text is None or a text.
NoText     == [none |-> TRUE, chars |-> <<>>]
Text(cs)   == [none |-> FALSE, chars |-> cs]

UpperCase == <<"A", "B", "C", "D", "E", "F", "G", "H", "I", "J", "K", "L", "M",
               "N", "O", "P", "Q", "R", "S", "T", "U", "V", "W", "X", "Y", "Z">>
LowerCase == <<"a", "b", "c", "d", "e", "f", "g", "h", "i", "j", "k", "l", "m",
               "n", "o", "p", "q", "r", "s", "t", "u", "v", "w", "x", "y", "z">>
Digits    == {"0", "1", "2", "3", "4", "5", "6", "7", "8", "9"}
Letters   == Range(UpperCase) \cup Range(LowerCase)

MaxDomainLength == 253     \* `if len(domain) > 253`
MaxLabelLength  == 63      \* one character, up to 61, one character
MinTldLength    == 2       \* [a-zA-Z]{2,}

\* str.lower() of one character
LowerChar(c) ==
    IF \E k \in 1..Len(UpperCase) : UpperCase[k] = c
    THEN LowerCase[CHOOSE k \in 1..Len(UpperCase) : UpperCase[k] = c]
    ELSE c

lower(cs) == [k \in 1..Len(cs) |-> LowerChar(cs[k])]

startswith(cs, prefix) ==
    Len(cs) >= Len(prefix) /\ SubSeq(cs, 1, Len(prefix)) = prefix

\* cs[n:]
DropFirst(cs, n) == SubSeq(cs, n + 1, Len(cs))

\* cs.split(c)[0]: the text before the first c, all of it when there is none
BeforeFirst(cs, c) ==
    IF \E k \in 1..Len(cs) : cs[k] = c
    THEN SubSeq(cs, 1, (CHOOSE k \in 1..Len(cs) :
                           cs[k] = c /\ \A m \in 1..(k - 1) : cs[m] # c) - 1)
    ELSE cs

\* str.strip()
RECURSIVE strip(_)
strip(cs) ==
    IF cs = <<>> THEN cs
    ELSE IF Head(cs) = " " THEN strip(Tail(cs))
    ELSE IF cs[Len(cs)] = " " THEN strip(SubSeq(cs, 1, Len(cs) - 1))
    ELSE cs

\* cs.split('.')
RECURSIVE Labels(_)
Labels(cs) ==
    IF \E k \in 1..Len(cs) : cs[k] = "."
    THEN <<BeforeFirst(cs, ".")>> \o Labels(DropFirst(cs, Len(BeforeFirst(cs, ".")) + 1))
    ELSE <<cs>>

HttpsPrefix == <<"h", "t", "t", "p", "s", ":", "/", "/">>
HttpPrefix  == <<"h", "t", "t", "p", ":", "/", "/">>
WwwPrefix   == <<"w", "w", "w", ".">>

\* [a-zA-Z0-9](?:[a-zA-Z0-9-]{0,61}[a-zA-Z0-9])?
IsLabel(l) ==
    /\ Len(l) >= 1 /\ Len(l) <= MaxLabelLength
    /\ l[1] \in Letters \cup Digits
    /\ l[Len(l)] \in Letters \cup Digits
    /\ \A k \in 1..Len(l) : l[k] \in Letters \cup Digits \cup {"-"}

\* [a-zA-Z]{2,}
IsTld(l) == Len(l) >= MinTldLength /\ \A k \in 1..Len(l) : l[k] \in Letters

\* domain_pattern.match(domain): one or more labels, each followed by a
\* dot, then the top-level label
domain_pattern_match(cs) ==
    LET ls == Labels(cs)
    IN  /\ Len(ls) >= 2
        /\ \A k \in 1..(Len(ls) - 1) : IsLabel(ls[k])
        /\ IsTld(ls[Len(ls)])

\* DomainConfigManager.validate_domain
validate_domain(d) ==
    IF d.none \/ d.chars = <<>> THEN FALSE
    ELSE IF Len(d.chars) > MaxDomainLength THEN FALSE
    ELSE IF Head(d.chars) = "." \/ d.chars[Len(d.chars)] = "." THEN FALSE
    ELSE domain_pattern_match(d.chars)

\* `if domain.startswith('www.'): domain = domain[4:]`
StripWww(cs) == IF startswith(cs, WwwPrefix) THEN DropFirst(cs, Len(WwwPrefix)) ELSE cs

\* DomainConfigManager._clean_domain
DomainConfigManager_clean_domain(d) ==
    IF d.none \/ d.chars = <<>> THEN Text(<<>>)
    ELSE LET a == IF startswith(d.chars, HttpsPrefix)
                  THEN DropFirst(d.chars, Len(HttpsPrefix))
                  ELSE IF startswith(d.chars, HttpPrefix)
                  THEN DropFirst(d.chars, Len(HttpPrefix))
                  ELSE d.chars
             b == StripWww(a)
             c == BeforeFirst(b, "/")
             e == BeforeFirst(c, ":")
         IN  Text(lower(strip(e)))

\* get_domains on one entry: the cleaned domain when it is valid, nothing
\* otherwise
normalize(d) ==
    LET cleaned_domain == DomainConfigManager_clean_domain(d)
    IN  IF validate_domain(cleaned_domain) THEN cleaned_domain ELSE NoText

\* normalize(raw_domain)
normalize_once ==
    /\ pc = "norm_begin"
    /\ once' = normalize(Text(raw_domain))
    /\ pc' = "norm_once"
    /\ UNCHANGED <<entry, now, handlerVars, retryVars, classifyVars, calcVars, batchVars,
                   execVars, snsVars, lambdaVars, raw_domain, twice>>
    /\ UNCHANGED <<categorize_error, reportVars, timeoutVars>>

\* normalize of that result
normalize_twice ==
    /\ pc = "norm_once"
    /\ twice' = normalize(once)
    /\ pc' = "norm_done"
    /\ UNCHANGED <<entry, now, handlerVars, retryVars, classifyVars, calcVars, batchVars,
                   execVars, snsVars, lambdaVars, raw_domain, once>>
    /\ UNCHANGED <<categorize_error, reportVars, timeoutVars>>

----------------------------------------------------------------------------
(* SNSNotificationService: the texts of the messages *)

PropertyWarningDays == 30     \* CertificateInfo.is_expiring_soon: 0 <= days <= 30

\* The properties of the record itself (models.py), which the formatting
\* code reads: they look at days_until_expiry only.
CertificateInfo_is_expiring_soon(c) ==
    0 <= c.days_until_expiry /\ c.days_until_expiry <= PropertyWarningDays

CertificateInfo_is_expired(c) == c.days_until_expiry < 0

IsExpiredProperty(c)  == CertificateInfo_is_expired(c)
IsExpiringProperty(c) == CertificateInfo_is_expiring_soon(c) /\ ~CertificateInfo_is_expired(c)
IsNormalProperty(c)   == ~CertificateInfo_is_expiring_soon(c) /\ ~CertificateInfo_is_expired(c)

\* A text is the sequence of its lines; a line is what it says (line), and
\* the domain, number and string it shows.
Line(k, d, n, str) == [line |-> k, domain |-> d, n |-> n, text |-> str]

Abs(n) == IF n < 0 THEN -n ELSE n

\* strftime('%Y-%m-%d'): the day a time falls on
DateOf(t) == t \div SecondsPerDay

\* success_rate * 100 with one decimal, in tenths of a percent (no total of
\* the model gives a tie between two tenths)
RateTenths(ok, total) ==
    IF total > 0 THEN (2000 * ok + total) \div (2 * total) ELSE 0

\* LoggerService.get_execution_summary on the statistics; start_time and
\* end_time are not both set before log_check_end, so the duration is 0
get_execution_summary(stats) ==
    [total_domains |-> stats.total_domains,
     successful_checks |-> stats.successful_checks,
     failed_checks |-> stats.failed_checks,
     success_rate_tenths |-> RateTenths(stats.successful_checks, stats.total_domains),
     duration_seconds |-> 0]

Subject(kind, count, total, tenths) ==
    [kind |-> kind, count |-> count, total_domains |-> total, rate_tenths |-> tenths]

NoSubject == Subject("none", 0, 0, 0)

\* SNSNotificationService._format_status_subject: the counts are taken over
\* all the records given
_format_status_subject(all_domains, summary) ==
    LET expired_count  == Len(SelectSeq(all_domains, IsExpiredProperty))
        expiring_count == Len(SelectSeq(all_domains, IsExpiringProperty))
    IN  IF expired_count > 0
        THEN Subject("expired", expired_count, Len(all_domains), summary.success_rate_tenths)
        ELSE IF expiring_count > 0
        THEN Subject("expiring", expiring_count, Len(all_domains), summary.success_rate_tenths)
        ELSE Subject("all normal", 0, Len(all_domains), summary.success_rate_tenths)

\* the lines of one record in the expired or expiring section; date_time
\* tells whether the expiry shows the time of day too
CertLines(c, days_line, date_time) ==
    << Line("domain", c.domain, 0, ""),
       Line("expiry", "", IF date_time THEN c.expiry_date ELSE DateOf(c.expiry_date), ""),
       Line(days_line, "", IF days_line = "days expired" THEN Abs(c.days_until_expiry)
                           ELSE c.days_until_expiry, ""),
       Line("issuer", "", 0, c.issuer),
       Line("", "", 0, "") >>

Section(certs, days_line, date_time) ==
    Join([k \in 1..Len(certs) |-> CertLines(certs[k], days_line, date_time)])

\* SNSNotificationService.format_status_report_content, the wall clock
\* reading t
format_status_report_content(all_domains, summary, t) ==
    LET failed_certs   == SelectSeq(all_domains, IsInvalid)
        valid_certs    == SelectSeq(all_domains, IsValid)
        expired_certs  == SelectSeq(valid_certs, IsExpiredProperty)
        expiring_certs == SelectSeq(valid_certs, IsExpiringProperty)
        normal_certs   == SelectSeq(valid_certs, IsNormalProperty)
        Heading(k)     == << Line(k, "", 0, ""), Line("rule", "", 30, "") >>
    IN  << Line("title", "", 0, ""),
           Line("rule", "", 40, ""),
           Line("check time", "", t, ""),
           Line("duration", "", summary.duration_seconds, ""),
           Line("total domains", "", Len(all_domains), ""),
           Line("successful checks", "", summary.successful_checks, ""),
           Line("failed checks", "", summary.failed_checks, ""),
           Line("success rate", "", summary.success_rate_tenths, ""),
           Line("", "", 0, "") >>
        \o (IF expired_certs # <<>>
            THEN Heading("expired:") \o Section(expired_certs, "days expired", FALSE)
            ELSE <<>>)
        \o (IF expiring_certs # <<>>
            THEN Heading("expiring soon:") \o Section(expiring_certs, "days left", FALSE)
            ELSE <<>>)
        \o (IF failed_certs # <<>>
            THEN Heading("failed:")
                 \o Join([k \in 1..Len(failed_certs) |->
                            << Line("domain", failed_certs[k].domain, 0, ""),
                               Line("error", "", 0, failed_certs[k].error_message.text),
                               Line("", "", 0, "") >>])
            ELSE <<>>)
        \o (IF normal_certs # <<>>
            THEN Heading("normal:")
                 \o [k \in 1..Len(normal_certs) |->
                       Line("normal", normal_certs[k].domain,
                            normal_certs[k].days_until_expiry, "")]
                 \o << Line("", "", 0, "") >>
            ELSE <<>>)
        \o Heading("summary:")
        \o << Line("expired count", "", Len(expired_certs), ""),
              Line("expiring count", "", Len(expiring_certs), ""),
              Line("normal count", "", Len(normal_certs), ""),
              Line("failed count", "", Len(failed_certs), ""),
              Line("", "", 0, "") >>
        \o (IF expired_certs # <<>> \/ expiring_certs # <<>> \/ failed_certs # <<>>
            THEN Heading("advice:")
                 \o (IF expired_certs # <<>> THEN <<Line("advice", "", 1, "")>> ELSE <<>>)
                 \o (IF expiring_certs # <<>> THEN <<Line("advice", "", 2, "")>> ELSE <<>>)
                 \o (IF failed_certs # <<>> THEN <<Line("advice", "", 3, "")>> ELSE <<>>)
                 \o (IF expired_certs # <<>> \/ expiring_certs # <<>>
                     THEN <<Line("advice", "", 4, ""), Line("advice", "", 5, "")>>
                     ELSE <<>>)
                 \o << Line("", "", 0, "") >>
            ELSE <<>>)
        \o << Line("footer", "", 0, "") >>

\* SNSNotificationService.format_notification_content, the wall clock
\* reading t
format_notification_content(records, t) ==
    LET expired_certs  == SelectSeq(records, IsExpiredProperty)
        expiring_certs == SelectSeq(records, IsExpiringProperty)
    IN  IF records = <<>> THEN << Line("all normal", "", 0, "") >>
        ELSE << Line("title", "", 0, ""),
                Line("rule", "", 30, ""),
                Line("check time", "", t, ""),
                Line("", "", 0, "") >>
             \o (IF expired_certs # <<>>
                 THEN << Line("expired:", "", 0, ""), Line("", "", 0, "") >>
                      \o Section(expired_certs, "days expired", TRUE)
                 ELSE <<>>)
             \o (IF expiring_certs # <<>>
                 THEN << Line("expiring soon:", "", PropertyWarningDays, ""),
                         Line("", "", 0, "") >>
                      \o Section(expiring_certs, "days left", TRUE)
                 ELSE <<>>)
             \o << Line("advice:", "", 0, ""),
                   Line("advice", "", 1, ""), Line("advice", "", 2, ""),
                   Line("advice", "", 3, ""),
                   Line("", "", 0, ""),
                   Line("footer", "", 0, "") >>

\* calculator = ExpiryCalculator(w); the records it flags are given to
\* service.format_notification_content
format_notification_content_call ==
    /\ pc = "fn_begin"
    /\ categorized' = categorize_certificates(certificates, warning_days)
    /\ notification_domains' = NotificationDomains(categorized')
    /\ \E t \in now..MaxClock :
         /\ now' = t
         /\ alert_content' = format_notification_content(notification_domains', t)
    /\ pc' = "fn_done"
    /\ UNCHANGED <<entry, handlerVars, retryVars, classifyVars, warning_days, certificates,
                   batchVars, execVars, configuration_valid, service_error,
                   pub_max_retries, pub_attempt, pub_log, pub_result, sns_batch_size,
                   batch_start, success_count, sent_log, sn_result, lambdaVars, normVars,
                   categorize_error, status_subject, status_message,
                   status_message_again, timeoutVars>>

\* service.send_status_report(all_domains, execution_summary) up to the
\* publish: the subject and the content are formatted
send_status_report_format ==
    /\ pc = "sr_begin"
    /\ \E t \in now..MaxClock :
         /\ now' = t
         /\ status_subject' =
              _format_status_subject(certificates, get_execution_summary(execution_stats))
         /\ status_message' =
              format_status_report_content(certificates,
                                           get_execution_summary(execution_stats), t)
    /\ pc' = "sr_formatted"
    /\ UNCHANGED <<entry, handlerVars, retryVars, classifyVars, calcVars, batchVars,
                   execVars, snsVars, lambdaVars, normVars, categorize_error,
                   status_message_again, alert_content, timeoutVars>>

\* service.format_status_report_content(all_domains, execution_summary)
\* called again with the same arguments
format_status_report_content_again ==
    /\ pc = "sr_formatted"
    /\ \E t \in now..MaxClock :
         /\ now' = t
         /\ status_message_again' =
              format_status_report_content(certificates,
                                           get_execution_summary(execution_stats), t)
    /\ pc' = "sr_done"
    /\ UNCHANGED <<entry, handlerVars, retryVars, classifyVars, calcVars, batchVars,
                   execVars, snsVars, lambdaVars, normVars, categorize_error,
                   status_subject, status_message, alert_content, timeoutVars>>

----------------------------------------------------------------------------
(* TimeoutHandler.with_timeout *)

DefaultTimeout == 10

\* raise TimeoutError(...) of timeout_handler
TimeoutRaised == Err("TimeoutError", "function timed out")

\* What the wrapped function does when it ends before the alarm: it returns,
\* or raises an exception of its own (a TimeoutError among them)
WtFuncOutcomes ==
    {Ok(Cert("valid", 0, "Test CA", "")),
     Raise(Err("ValueError", "invalid value")),
     Raise(Err("TimeoutError", "timed out"))}

\* timeout = timeout or self.default_timeout; signal.signal(SIGALRM,
\* timeout_handler); signal.alarm(timeout); func is entered
with_timeout_begin ==
    /\ pc = "wt_begin"
    /\ sigalrm_handler' = "timeout_handler"
    /\ alarm' = (IF timeout = 0 THEN DefaultTimeout ELSE timeout)
    /\ pc' = "wt_running"
    /\ UNCHANGED <<entry, now, handlerVars, retryVars, classifyVars, calcVars,
                   batchVars, execVars, snsVars, lambdaVars, normVars,
                   categorize_error, reportVars, wt_result, timeout,
                   sigalrm_delivered>>

\* One second passes inside func.  When the alarm expires, SIGALRM goes to
\* timeout_handler, which raises TimeoutError in the try block: the except
\* clause logs and re-raises, finally restores the previous handler.
with_timeout_second_passes ==
    /\ pc = "wt_running"
    /\ alarm > 0
    /\ alarm' = alarm - 1
    /\ IF alarm = 1
       THEN /\ sigalrm_delivered' = sigalrm_handler
            /\ wt_result' = Raise(TimeoutRaised)
            /\ sigalrm_handler' = "old_handler"
            /\ pc' = "wt_exited"
       ELSE UNCHANGED <<sigalrm_delivered, wt_result, sigalrm_handler, pc>>
    /\ UNCHANGED <<entry, now, handlerVars, retryVars, classifyVars, calcVars,
                   batchVars, execVars, snsVars, lambdaVars, normVars,
                   categorize_error, reportVars, timeout>>

\* func ends before the alarm: on a return signal.alarm(0) cancels the alarm;
\* an exception skips that statement.  finally restores the previous handler.
with_timeout_func_ends ==
    /\ pc = "wt_running"
    /\ \E o \in WtFuncOutcomes :
         /\ wt_result' = o
         /\ alarm' = (IF o.kind = "ok" THEN 0 ELSE alarm)
    /\ sigalrm_handler' = "old_handler"
    /\ pc' = "wt_exited"
    /\ UNCHANGED <<entry, now, handlerVars, retryVars, classifyVars, calcVars,
                   batchVars, execVars, snsVars, lambdaVars, normVars,
                   categorize_error, reportVars, timeout, sigalrm_delivered>>

\* One second passes after with_timeout has exited.  An alarm that is still
\* pending expires in the caller: SIGALRM goes to the handler installed now.
second_passes_after_exit ==
    /\ pc = "wt_exited"
    /\ alarm > 0
    /\ alarm' = alarm - 1
    /\ sigalrm_delivered' = (IF alarm = 1 THEN sigalrm_handler ELSE sigalrm_delivered)
    /\ UNCHANGED <<entry, pc, now, handlerVars, retryVars, classifyVars, calcVars,
                   batchVars, execVars, snsVars, lambdaVars, normVars,
                   categorize_error, reportVars, sigalrm_handler, wt_result, timeout>>

----------------------------------------------------------------------------
(* Inputs *)

MaxDomains   == 3     \* length of the domain list
MaxBatchSize == 2     \* batch_size given by a direct caller: 1..MaxBatchSize
MaxTimeout   == 2     \* timeout given to with_timeout: 0 (None) .. MaxTimeout

Domains == {"a.example", "b.example"}

\* The domain lists of the model: the first m entries of a repeating pattern
DomainLists(pattern, n) ==
    {[k \in 1..m |-> pattern[((k - 1) % Len(pattern)) + 1]] : m \in 0..n}

\* get_domains returns cleaned domains; a direct caller of the batch
\* orchestrator may pass any text
ConfiguredDomains == <<"a.example", "b.example">>
RawDomains        == <<"a.example", "https://A.example/x", "b.example">>

WarningWindows == {0, 7, DefaultWarningDays}

DayOffsets == {-1, 0, 1, 7, 8, DefaultWarningDays, DefaultWarningDays + 1}

\* expiry times one second before, at and one second after a day boundary
ExpiryDates == {d * SecondsPerDay + r : d \in DayOffsets, r \in {-1, 0, 1}}

\* The records the program builds: valid ones with a day count and no error
\* message, invalid ones with the sentinel values and an error message.
CertInfos ==
    {CertificateInfo(d, n * SecondsPerDay, n, "Test CA", TRUE, None) :
        d \in Domains, n \in DayOffsets}
    \cup
    {CertificateInfo(d, 0, -1, "Unknown", FALSE, Str("", "Connection failed")) :
        d \in Domains}

RetryIdle ==
    /\ attempt = 0 /\ last_exception = NoError /\ retryable = FALSE
    /\ events = <<>> /\ wr_result = NoOutcome

ClassifyIdle ==
    /\ expiry_date = 0 /\ days_until_expiry = 0
    /\ expired = FALSE /\ expiring_soon = FALSE

BatchIdle ==
    /\ domains = <<>> /\ domain_error = NoError /\ batch_size = DefaultBatchSize
    /\ i = 0 /\ j = 0 /\ clean_domain = ""
    /\ certificate_results = <<>> /\ batch_log = <<>>

ExecIdle ==
    /\ execution_stats = NoStats /\ notification_sent = FALSE
    /\ notify_log = <<>> /\ start_time = 0 /\ result = NoResult

SnsIdle ==
    /\ configuration_valid = TRUE /\ service_error = NoError
    /\ pub_max_retries = PublishDefaultRetries /\ pub_attempt = 0
    /\ pub_log = <<>> /\ pub_result = "none"
    /\ notification_domains = <<>> /\ sns_batch_size = SnsDefaultBatchSize
    /\ batch_start = 0 /\ success_count = 0 /\ sent_log = <<>> /\ sn_result = "none"

LambdaIdle ==
    /\ ctor_error = NoError /\ execute_error = NoError
    /\ logging_fails = FALSE /\ response = NoResponse

NormIdle ==
    /\ raw_domain = <<>> /\ once = NoText /\ twice = NoText

ReportIdle ==
    /\ status_subject = NoSubject /\ status_message = <<>>
    /\ status_message_again = <<>> /\ alert_content = <<>>

TimeoutIdle ==
    /\ alarm = 0 /\ sigalrm_handler = "old_handler" /\ wt_result = NoOutcome
    /\ timeout = 0 /\ sigalrm_delivered = "none"

IdleOthers ==
    /\ now = 0
    /\ max_retries = CheckerMaxRetries /\ base_delay = CheckerBaseDelay
    /\ warning_days = DefaultWarningDays
    /\ certificates = <<>> /\ categorized = NoCategorized
    /\ RetryIdle /\ ClassifyIdle /\ BatchIdle /\ ExecIdle

\* service = SNSNotificationService(topic_arn); service._publish_with_retry(s, m, r)
InitPublishWithRetry ==
    /\ entry = "_publish_with_retry" /\ pc = "pub_call"
    /\ pub_max_retries \in 0..MaxRetriesBound
    /\ configuration_valid = TRUE /\ service_error = NoError
    /\ pub_attempt = 0 /\ pub_log = <<>> /\ pub_result = "none"
    /\ notification_domains = <<>> /\ sns_batch_size = SnsDefaultBatchSize
    /\ batch_start = 0 /\ success_count = 0 /\ sent_log = <<>> /\ sn_result = "none"
    /\ IdleOthers /\ LambdaIdle /\ NormIdle
    /\ categorize_error = NoError /\ ReportIdle /\ TimeoutIdle

MaxAlertRecords == 25     \* length of the longest list given to the notification service

\* the k-th record of an alert: two expired ones, then expiring ones
AlertRecord(k) ==
    CertificateInfo(IF k % 2 = 1 THEN "a.example" ELSE "b.example",
                    (k - 3) * SecondsPerDay, k - 3, "Test CA", TRUE, None)

AlertList(n) == [k \in 1..n |-> AlertRecord(k)]

AlertSizes == {0, 1, 3, SnsDefaultBatchSize, SnsDefaultBatchSize + 1, BatchThreshold,
               BatchThreshold + 1, MaxAlertRecords}

\* the records of a run: a healthy one, an invalid one, and n records that
\* need an alert, the expiring ones before the expired ones
CheckedList(n) ==
    << CertificateInfo("a.example", (DefaultWarningDays + 1) * SecondsPerDay,
                       DefaultWarningDays + 1, "Test CA", TRUE, None),
       CertificateInfo("b.example", 0, -1, "Unknown", FALSE,
                       Str("", "Connection failed")) >>
    \o [k \in 1..n |-> AlertRecord(n + 1 - k)]

\* service = SNSNotificationService(topic_arn); service.send_batch_notifications(l, b)
InitSendBatch ==
    /\ entry = "send_batch_notifications" /\ pc = "sb_begin"
    /\ notification_domains \in {AlertList(n) : n \in AlertSizes}
    /\ sns_batch_size \in {SnsDefaultBatchSize, 2 * SnsDefaultBatchSize}
    /\ configuration_valid \in BOOLEAN
    /\ service_error = NoError
    /\ pub_max_retries = PublishDefaultRetries
    /\ pub_attempt = 0 /\ pub_log = <<>> /\ pub_result = "none"
    /\ batch_start = 0 /\ success_count = 0 /\ sent_log = <<>> /\ sn_result = "none"
    /\ IdleOthers /\ LambdaIdle /\ NormIdle
    /\ categorize_error = NoError /\ ReportIdle /\ TimeoutIdle

\* monitor = SSLCertificateMonitor(); monitor._send_notifications(categorized)
InitSendNotifications ==
    /\ entry = "_send_notifications" /\ pc = "sn_begin"
    /\ warning_days = DefaultWarningDays
    /\ certificates \in {CheckedList(n) : n \in AlertSizes}
    /\ categorized = categorize_certificates(certificates, warning_days)
    /\ configuration_valid \in BOOLEAN
    /\ service_error \in {NoError, Err("Exception", "SNS error")}
    /\ pub_max_retries = PublishDefaultRetries
    /\ pub_attempt = 0 /\ pub_log = <<>> /\ pub_result = "none"
    /\ notification_domains = <<>> /\ sns_batch_size = SnsDefaultBatchSize
    /\ batch_start = 0 /\ success_count = 0 /\ sent_log = <<>> /\ sn_result = "none"
    /\ now = 0
    /\ max_retries = CheckerMaxRetries /\ base_delay = CheckerBaseDelay
    /\ RetryIdle /\ ClassifyIdle /\ BatchIdle /\ ExecIdle
    /\ LambdaIdle /\ NormIdle
    /\ categorize_error = NoError /\ ReportIdle /\ TimeoutIdle

MaxErrors == 6      \* length of the errors list of a CheckResult given to lambda_handler

ErrorTexts == <<"Connection failed", "timed out", "certificate verify failed",
                "no expiry in certificate", "Critical error", "SNS error">>

\* a list of k error messages, all different
ErrorList(k) ==
    [n \in 1..k |-> Str(IF n > Len(ErrorTexts) THEN "Exception" ELSE "",
                        ErrorTexts[((n - 1) % Len(ErrorTexts)) + 1])]

\* the results execute hands to lambda_handler (a monitor of the tests may
\* return any counts and errors)
HandlerResults ==
    {CheckResult(total, ok, total - ok, <<>>, <<>>, ErrorList(k), 1) :
        total \in {3}, ok \in {0, 2, 3}, k \in 0..MaxErrors}
    \cup {CheckResult(0, 0, 0, <<>>, <<>>, ErrorList(k), 0) : k \in 0..MaxErrors}

\* lambda_handler(event, context): the monitor's constructor raises, or
\* execute raises, or execute returns a result
InitLambdaHandler ==
    /\ entry = "lambda_handler" /\ pc = "lh_begin"
    /\ \/ /\ ctor_error = Err("Exception", "Critical initialization error")
          /\ execute_error = NoError /\ result = NoResult
       \/ /\ ctor_error = NoError
          /\ execute_error = Err("Exception", "Execution error") /\ result = NoResult
       \/ /\ ctor_error = NoError /\ execute_error = NoError
          /\ result \in HandlerResults
    /\ logging_fails \in BOOLEAN
    /\ response = NoResponse
    /\ execution_stats = NoStats /\ notification_sent = FALSE
    /\ notify_log = <<>> /\ start_time = 0
    /\ now = 0
    /\ max_retries = CheckerMaxRetries /\ base_delay = CheckerBaseDelay
    /\ warning_days = DefaultWarningDays
    /\ certificates = <<>> /\ categorized = NoCategorized
    /\ RetryIdle /\ ClassifyIdle /\ BatchIdle /\ SnsIdle /\ NormIdle
    /\ categorize_error = NoError /\ ReportIdle /\ TimeoutIdle

MaxTokens == 4      \* a domain text is made of up to MaxTokens pieces

\* the pieces domain texts are made of
Tokens == { HttpsPrefix, HttpPrefix, WwwPrefix,
            <<"W", "W", "W", ".">>, <<"e", "x", ".">>, <<"c", "o", "m">>,
            <<"/", "p">>, <<":", "8">>, <<" ">> }

DomainTexts == {Join(ts) : ts \in SeqsUpTo(Tokens, MaxTokens)}

\* manager = DomainConfigManager(); one entry of the DOMAINS variable
InitNormalize ==
    /\ entry = "normalize" /\ pc = "norm_begin"
    /\ raw_domain \in DomainTexts
    /\ once = NoText /\ twice = NoText
    /\ IdleOthers /\ SnsIdle /\ LambdaIdle
    /\ categorize_error = NoError /\ ReportIdle /\ TimeoutIdle

\* the statistics the logger holds once these records have been logged
StatsOf(certs) ==
    [total_domains |-> Len(certs), successful_checks |-> SuccessfulCount(certs),
     failed_checks |-> FailedCount(certs), error_count |-> 0]

\* service = SNSNotificationService(topic_arn); service.send_status_report(l, s)
InitSendStatusReport ==
    /\ entry = "send_status_report" /\ pc = "sr_begin"
    /\ certificates \in SeqsUpTo(CertInfos, MaxCerts)
    /\ execution_stats = StatsOf(certificates)
    /\ now \in 0..MaxClock
    /\ notification_sent = FALSE /\ notify_log = <<>> /\ start_time = 0
    /\ result = NoResult
    /\ max_retries = CheckerMaxRetries /\ base_delay = CheckerBaseDelay
    /\ warning_days = DefaultWarningDays
    /\ categorized = NoCategorized
    /\ RetryIdle /\ ClassifyIdle /\ BatchIdle /\ SnsIdle /\ LambdaIdle /\ NormIdle
    /\ categorize_error = NoError /\ ReportIdle /\ TimeoutIdle

\* the windows a calculator is built with when its records go to an alert:
\* also one wider than the default
AlertWindows == WarningWindows \cup {2 * DefaultWarningDays}

\* calculator = ExpiryCalculator(w); service.format_notification_content(flagged)
InitFormatNotification ==
    /\ entry = "format_notification_content" /\ pc = "fn_begin"
    /\ warning_days \in AlertWindows
    /\ certificates \in SeqsUpTo(CertInfos, MaxCerts)
    /\ categorized = NoCategorized
    /\ now = 0
    /\ max_retries = CheckerMaxRetries /\ base_delay = CheckerBaseDelay
    /\ RetryIdle /\ ClassifyIdle /\ BatchIdle /\ ExecIdle /\ SnsIdle /\ LambdaIdle
    /\ NormIdle
    /\ categorize_error = NoError /\ ReportIdle /\ TimeoutIdle

\* checker = SSLCertificateChecker(); checker.check_certificate(domain)
InitCheckCertificate ==
    /\ entry = "check_certificate" /\ pc = "check"
    /\ domains \in {<<d>> : d \in Range(RawDomains)}
    /\ batch_size = DefaultBatchSize
    /\ domain_error = NoError
    /\ i = 0 /\ j = 0 /\ clean_domain = ""
    /\ certificate_results = <<>> /\ batch_log = <<>>
    /\ now = 0
    /\ max_retries = CheckerMaxRetries /\ base_delay = CheckerBaseDelay
    /\ warning_days = DefaultWarningDays
    /\ certificates = <<>> /\ categorized = NoCategorized
    /\ RetryIdle /\ ClassifyIdle /\ ExecIdle /\ SnsIdle /\ LambdaIdle /\ NormIdle
    /\ categorize_error = NoError /\ ReportIdle /\ TimeoutIdle

\* handler = TimeoutHandler(); handler.with_timeout(func, timeout)
InitWithTimeout ==
    /\ entry = "with_timeout" /\ pc = "wt_begin"
    /\ timeout \in 0..MaxTimeout
    /\ alarm = 0 /\ sigalrm_handler = "old_handler" /\ wt_result = NoOutcome
    /\ sigalrm_delivered = "none"
    /\ IdleOthers /\ SnsIdle /\ LambdaIdle /\ NormIdle
    /\ categorize_error = NoError /\ ReportIdle

\* handler = NetworkErrorHandler(); handler._is_retryable_error(e)
InitIsRetryable ==
    /\ entry = "_is_retryable_error" /\ pc = "is_retryable"
    /\ last_exception \in Errors
    /\ now = 0
    /\ max_retries = 3 /\ base_delay = 1
    /\ attempt = 0 /\ retryable = FALSE /\ events = <<>> /\ wr_result = NoOutcome
    /\ warning_days = DefaultWarningDays
    /\ certificates = <<>> /\ categorized = NoCategorized
    /\ ClassifyIdle /\ BatchIdle /\ ExecIdle /\ SnsIdle /\ LambdaIdle /\ NormIdle
    /\ categorize_error = NoError /\ ReportIdle /\ TimeoutIdle

\* handler = NetworkErrorHandler(m, b); handler.with_retry(func)
InitWithRetry ==
    /\ entry = "with_retry" /\ pc = "wr_call"
    /\ max_retries \in 0..MaxRetriesBound
    /\ base_delay \in 1..MaxBaseDelay
    /\ now = 0
    /\ warning_days = DefaultWarningDays
    /\ certificates = <<>> /\ categorized = NoCategorized
    /\ RetryIdle /\ ClassifyIdle /\ BatchIdle /\ ExecIdle /\ SnsIdle /\ LambdaIdle /\ NormIdle
    /\ categorize_error = NoError /\ ReportIdle /\ TimeoutIdle

\* calculator = ExpiryCalculator(w); calculator.calculate_days_until_expiry(e); ...
InitClassify ==
    /\ entry = "classify" /\ pc = "calc_days"
    /\ now \in 0..MaxClock
    /\ warning_days \in WarningWindows
    /\ expiry_date \in ExpiryDates
    /\ days_until_expiry = 0 /\ expired = FALSE /\ expiring_soon = FALSE
    /\ max_retries = 3 /\ base_delay = 1
    /\ certificates = <<>> /\ categorized = NoCategorized
    /\ RetryIdle /\ BatchIdle /\ ExecIdle /\ SnsIdle /\ LambdaIdle /\ NormIdle
    /\ categorize_error = NoError /\ ReportIdle /\ TimeoutIdle

\* calculator = ExpiryCalculator(w); calculator.categorize_certificates(certificates)
InitCategorize ==
    /\ entry = "categorize_certificates" /\ pc = "categorize"
    /\ warning_days \in WarningWindows
    /\ certificates \in SeqsUpTo(CertInfos, MaxCerts)
    /\ categorized = NoCategorized
    /\ now = 0
    /\ max_retries = 3 /\ base_delay = 1
    /\ RetryIdle /\ ClassifyIdle /\ BatchIdle /\ ExecIdle /\ SnsIdle /\ LambdaIdle /\ NormIdle
    /\ categorize_error = NoError /\ ReportIdle /\ TimeoutIdle

\* monitor = SSLCertificateMonitor(); monitor._check_certificates_batch(domains, b)
InitBatch ==
    /\ entry = "_check_certificates_batch" /\ pc = "batch_begin"
    /\ domains \in DomainLists(RawDomains, MaxDomains)
    /\ batch_size \in 1..MaxBatchSize
    /\ domain_error = NoError
    /\ i = 0 /\ j = 0 /\ clean_domain = ""
    /\ certificate_results = <<>> /\ batch_log = <<>>
    /\ now = 0
    /\ max_retries = CheckerMaxRetries /\ base_delay = CheckerBaseDelay
    /\ warning_days = DefaultWarningDays
    /\ certificates = <<>> /\ categorized = NoCategorized
    /\ RetryIdle /\ ClassifyIdle /\ ExecIdle /\ SnsIdle /\ LambdaIdle /\ NormIdle
    /\ categorize_error = NoError /\ ReportIdle /\ TimeoutIdle

\* monitor = SSLCertificateMonitor(); monitor.execute(): get_domains returns
\* a list of cleaned domains, or raises
InitExecute ==
    /\ entry = "execute" /\ pc = "execute_begin"
    /\ \/ /\ domains \in DomainLists(ConfiguredDomains, MaxDomains)
          /\ domain_error = NoError
       \/ /\ domains = <<>>
          /\ domain_error \in {Err("Exception", "Critical error")}
    /\ batch_size = DefaultBatchSize
    /\ i = 0 /\ j = 0 /\ clean_domain = ""
    /\ certificate_results = <<>> /\ batch_log = <<>>
    /\ now = 0
    /\ max_retries = CheckerMaxRetries /\ base_delay = CheckerBaseDelay
    /\ warning_days = DefaultWarningDays
    /\ certificates = <<>> /\ categorized = NoCategorized
    /\ RetryIdle /\ ClassifyIdle /\ ExecIdle /\ SnsIdle /\ LambdaIdle /\ NormIdle
    /\ categorize_error = NoError /\ ReportIdle /\ TimeoutIdle

Init ==
    \/ InitIsRetryable
    \/ InitWithRetry
    \/ InitClassify
    \/ InitCategorize
    \/ InitBatch
    \/ InitExecute
    \/ InitPublishWithRetry
    \/ InitSendBatch
    \/ InitSendNotifications
    \/ InitLambdaHandler
    \/ InitNormalize
    \/ InitSendStatusReport
    \/ InitFormatNotification
    \/ InitCheckCertificate
    \/ InitWithTimeout

Next ==
    \/ is_retryable_error_call
    \/ with_retry_call
    \/ with_retry_sleep
    \/ calculate_days_until_expiry
    \/ classify_predicates
    \/ categorize_call
    \/ check_certificates_batch_begin
    \/ check_certificate_begin
    \/ check_certificate_end
    \/ check_certificate_raises
    \/ batch_pause
    \/ execute_begin
    \/ execute_send_notifications
    \/ execute_categorize_raises
    \/ execute_send_status_report
    \/ execute_end
    \/ publish_attempt
    \/ publish_wait
    \/ send_batch_notifications_begin
    \/ send_expiry_notification_begin
    \/ send_expiry_notification_end
    \/ send_notifications_begin
    \/ send_notifications_end
    \/ lambda_handler
    \/ normalize_once
    \/ normalize_twice
    \/ send_status_report_format
    \/ format_status_report_content_again
    \/ format_notification_content_call
    \/ check_certificate_return
    \/ with_timeout_begin
    \/ with_timeout_second_passes
    \/ with_timeout_func_ends
    \/ second_passes_after_exit

Spec == Init /\ [][Next]_vars

\* One run of execute, or of _check_certificates_batch by itself: the steps
\* of the run.  The run is one thread of a Python program whose collaborator
\* calls all return or raise, so a step that can be taken is taken.
RunInit == InitExecute \/ InitBatch

RunNext ==
    \/ execute_begin
    \/ check_certificates_batch_begin
    \/ check_certificate_begin
    \/ with_retry_call
    \/ with_retry_sleep
    \/ check_certificate_end
    \/ check_certificate_raises
    \/ batch_pause
    \/ execute_send_notifications
    \/ execute_categorize_raises
    \/ execute_send_status_report
    \/ execute_end

RunSpec == RunInit /\ [][RunNext]_vars /\ WF_vars(RunNext)

----------------------------------------------------------------------------
(* Properties *)

IsCall(e)  == e.ev = "call"
IsSleep(e) == e.ev = "sleep"
IsCheck(e) == e.ev = "check"

CallEvents  == SelectSeq(events, IsCall)
SleepEvents == SelectSeq(events, IsSleep)
CheckEvents == SelectSeq(batch_log, IsCheck)

RetryableFailure(o) == o.kind = "raise" /\ _is_retryable_error(o.error)

Last(s) == s[Len(s)]

\* C1: when func fails N times with a retryable error and then succeeds,
\* with_retry returns that value after exactly N+1 calls and N sleeps; the
\* k-th sleep lasts base_delay * 2^(k-1) and lies between the k-th and the
\* (k+1)-th call.
C1_RetryThenSuccess ==
    LET calls == CallEvents
        N     == Len(calls) - 1
    IN  ( /\ Len(calls) >= 1
          /\ Last(calls).outcome.kind = "ok"
          /\ \A k \in 1..N : RetryableFailure(calls[k].outcome) )
        => /\ wr_result.kind = "return"
           /\ wr_result.value = Last(calls).outcome.value
           /\ N <= max_retries
           /\ Len(SleepEvents) = N
           /\ Len(events) = 2 * N + 1
           /\ \A k \in 1..(N + 1) : events[2 * k - 1].ev = "call"
           /\ \A k \in 1..N : events[2 * k] = SleepEvent(base_delay * Pow2(k - 1))

C1_Witness ==
    /\ entry = "with_retry"
    /\ wr_result.kind = "return"
    /\ base_delay = 2
    /\ Len(SleepEvents) = 3

\* C2: when func fails with a retryable error on every attempt, with_retry
\* ends after exactly max_retries + 1 calls and max_retries sleeps, raises
\* the error of the last call, and does not sleep after that call.
C2_RetryExhausted ==
    LET calls == CallEvents
    IN  ( /\ wr_result.kind # "none"
          /\ \A k \in 1..Len(calls) : RetryableFailure(calls[k].outcome) )
        => /\ Len(calls) = max_retries + 1
           /\ Len(SleepEvents) = max_retries
           /\ wr_result.kind = "raise"
           /\ wr_result.error = Last(calls).outcome.error
           /\ Last(events).ev = "call"

C2_Witness ==
    /\ entry = "with_retry"
    /\ max_retries = 2
    /\ wr_result.kind = "raise"
    /\ Len(CallEvents) = 3
    /\ \A k \in 1..3 : RetryableFailure(CallEvents[k].outcome)
    /\ CallEvents[1].outcome.error # CallEvents[3].outcome.error

\* C3: a call of func that raises a non-retryable error is the last event
\* of with_retry, which raises that error: nothing is slept or called after
\* it; on the first attempt this is one call and no sleep.
C3_NonRetryableImmediate ==
    \A k \in 1..Len(events) :
        ( /\ events[k].ev = "call"
          /\ events[k].outcome.kind = "raise"
          /\ ~_is_retryable_error(events[k].outcome.error) )
        => /\ k = Len(events)
           /\ wr_result.kind = "raise"
           /\ wr_result.error = events[k].outcome.error

C3_Witness ==
    /\ entry = "with_retry"
    /\ max_retries >= 1
    /\ Len(events) = 1
    /\ events[1].outcome.kind = "raise"
    /\ ~_is_retryable_error(events[1].outcome.error)
    /\ wr_result.kind = "raise"

\* C4: an error whose class derives from a non-retryable class is not
\* retryable, whatever else it derives from and whatever its message; the
\* message keywords decide only for errors deriving from neither set.
C4_NonRetryableTypeFirst ==
    (last_exception # NoError /\ pc # "is_retryable") =>
        LET t == last_exception.type
            nonRetryableType == \E u \in non_retryable_errors : u \in Ancestors(t)
            retryableType    == \E u \in retryable_errors : u \in Ancestors(t)
            hasKeyword       == PhrasesIn(last_exception.msg) \cap retryable_messages # {}
        IN  /\ nonRetryableType => ~retryable
            /\ (~nonRetryableType /\ retryableType) => retryable
            /\ (~nonRetryableType /\ ~retryableType) => (retryable <=> hasKeyword)

C4_Witness ==
    /\ entry = "_is_retryable_error"
    /\ pc = "done"
    /\ last_exception = Err("ssl.CertificateError", "Connection timeout occurred")
    /\ ~retryable

\* C5: the day count is the floor of (expiry - now) / one day; the record
\* is expired iff days < 0, expiring soon iff 0 <= days <= warning_days,
\* healthy otherwise, exactly one of the three; an expiry before now gives
\* days < 0 and expired.
C5_ExpiryClassification ==
    (entry = "classify" /\ pc = "done") =>
        LET d     == days_until_expiry
            delta == expiry_date - now
            inExpired == Len(categorized.expired)
            inSoon    == Len(categorized.expiring_soon)
            inHealthy == Len(categorized.healthy)
        IN  /\ d * SecondsPerDay <= delta
            /\ delta < (d + 1) * SecondsPerDay
            /\ expired <=> (d < 0)
            /\ expiring_soon <=> (0 <= d /\ d <= warning_days)
            /\ (inExpired = 1) <=> (d < 0)
            /\ (inSoon = 1) <=> (0 <= d /\ d <= warning_days)
            /\ (inHealthy = 1) <=> (d > warning_days /\ d >= 0)
            /\ inExpired + inSoon + inHealthy = 1
            /\ expiry_date < now => (d < 0 /\ expired /\ inExpired = 1)

C5_Witness ==
    /\ entry = "classify"
    /\ pc = "done"
    /\ expiry_date = now - 1
    /\ days_until_expiry = -1
    /\ expired

\* C6: categorize_certificates counts every record given (total), puts
\* every valid record in exactly one of expired, expiring_soon and healthy
\* and no invalid record in any, and the three lengths plus the invalid
\* count add up to total.
C6_CategorizePartition ==
    ( \/ (entry = "categorize_certificates" /\ pc = "done")
      \/ (entry = "execute" /\ pc \in {"status_report", "finish"}) ) =>
        LET arg == IF entry = "execute" THEN certificate_results ELSE certificates
            c == categorized
            E == Range(c.expired)
            S == Range(c.expiring_soon)
            H == Range(c.healthy)
            In(x, T) == IF x \in T THEN 1 ELSE 0
        IN  /\ c.total = Len(arg)
            /\ E \cap S = {} /\ E \cap H = {} /\ S \cap H = {}
            /\ \A x \in E \cup S \cup H : x.is_valid /\ x \in Range(arg)
            /\ \A k \in 1..Len(arg) :
                 In(arg[k], E) + In(arg[k], S) + In(arg[k], H)
                    = (IF arg[k].is_valid THEN 1 ELSE 0)
            /\ Len(c.expired) + Len(c.expiring_soon) + Len(c.healthy) + c.invalid
                 = c.total

C6_Witness ==
    /\ entry = "categorize_certificates"
    /\ pc = "done"
    /\ Len(certificates) = 2
    /\ categorized.invalid = 1
    /\ Len(categorized.expired) = 1

\* C7: every CheckResult execute returns has
\* successful_checks + failed_checks = total_domains.
C7_CountsAddUp ==
    (entry = "execute" /\ pc = "returned") =>
        result.successful_checks + result.failed_checks = result.total_domains

C7_Witness ==
    /\ entry = "execute"
    /\ pc = "returned"
    /\ result.successful_checks >= 1
    /\ result.failed_checks >= 1

\* C8: the orchestrator calls check_certificate on the domains in input
\* order, each once; when it returns there is one record per domain, at the
\* domain's position, and the record of a domain whose check raised is
\* invalid and carries that domain.
C8_OneRecordPerDomain ==
    (entry \in {"_check_certificates_batch", "execute"}) =>
        LET checks == CheckEvents
        IN  /\ Len(checks) <= Len(domains)
            /\ \A k \in 1..Len(checks) : checks[k].domain = domains[k]
            /\ Len(certificate_results) <= Len(checks)
            /\ \A k \in 1..Len(certificate_results) :
                 /\ certificate_results[k].domain
                       \in {domains[k], _clean_domain(domains[k])}
                 /\ checks[k].raised =>
                       /\ ~certificate_results[k].is_valid
                       /\ certificate_results[k].domain = domains[k]
            /\ (pc = "batch_return" /\ domain_error = NoError) =>
                 /\ Len(checks) = Len(domains)
                 /\ Len(certificate_results) = Len(domains)

C8_Witness ==
    /\ entry = "_check_certificates_batch"
    /\ pc = "batch_return"
    /\ Len(domains) = 3
    /\ batch_size = 2
    /\ CheckEvents[1].raised
    /\ certificate_results[3].is_valid

\* C9: when get_domains raises, execute returns a result with all counts 0,
\* empty expired and expiring lists and the text of the exception as its
\* only error; no certificate is checked and nothing is sent.
C9_CatastrophicResult ==
    (entry = "execute" /\ domain_error # NoError) =>
        /\ pc \in {"execute_begin", "returned"}
        /\ batch_log = <<>>
        /\ notify_log = <<>>
        /\ pc = "returned" =>
             /\ result.total_domains = 0
             /\ result.successful_checks = 0
             /\ result.failed_checks = 0
             /\ result.expired_domains = <<>>
             /\ result.expiring_domains = <<>>
             /\ result.errors = <<Str("", domain_error.msg)>>

C9_Witness ==
    /\ entry = "execute"
    /\ domain_error # NoError
    /\ pc = "returned"
    /\ Len(result.errors) = 1

\* C10: with an empty domain list execute returns at once: all counts 0,
\* the 'no domains' message as the only error; no certificate is checked,
\* nothing is categorized and nothing is sent.
C10_EmptyDomainList ==
    (entry = "execute" /\ domain_error = NoError /\ domains = <<>>) =>
        /\ pc \in {"execute_begin", "returned"}
        /\ batch_log = <<>>
        /\ notify_log = <<>>
        /\ categorized = NoCategorized
        /\ pc = "returned" =>
             /\ result.total_domains = 0
             /\ result.successful_checks = 0
             /\ result.failed_checks = 0
             /\ result.errors = <<NoDomainsMessage>>

C10_Witness ==
    /\ entry = "execute"
    /\ domain_error = NoError
    /\ domains = <<>>
    /\ pc = "returned"
    /\ result.errors = <<NoDomainsMessage>>

IsStatusReport(c) == c.call = "send_status_report"
IsAlert(c) == c.call \in {"send_expiry_notification", "send_batch_notifications"}
IsFallback(c) == c.call = "sns_client.publish"

StatusReports == SelectSeq(notify_log, IsStatusReport)

\* C11 as stated: every invocation of execute that has returned attempted a
\* status report, whatever the domain list.
C11_StatusReportEveryInvocation ==
    (entry = "execute" /\ pc = "returned") => Len(StatusReports) >= 1

\* C11 amended: an invocation of execute in which get_domains returned a
\* non-empty list and categorize_certificates returned attempts exactly one
\* status report, carrying all records and the logger's summary, whatever
\* the checks and the alert did; an invocation with an empty list, a failing
\* get_domains or a failing categorize_certificates attempts none.
C11_StatusReportWhenDomains ==
    (entry = "execute" /\ pc = "returned") =>
        IF domain_error = NoError /\ domains # <<>> /\ categorize_error = NoError
        THEN /\ Len(StatusReports) = 1
             /\ Last(notify_log) = StatusReports[1]
             /\ StatusReports[1].records = certificate_results
             /\ StatusReports[1].summary = execution_stats
        ELSE StatusReports = <<>>

C11_Witness ==
    /\ entry = "execute"
    /\ pc = "returned"
    /\ ~notification_sent
    /\ Len(notify_log) = 3
    /\ notify_log[1].outcome = "raised"
    /\ notify_log[2].outcome = "raised"
    /\ IsStatusReport(notify_log[3])
    /\ result.failed_checks >= 1

IsPublish(e) == e.ev = "publish"
IsWait(e)    == e.ev = "wait"

Publishes == SelectSeq(pub_log, IsPublish)
Waits     == SelectSeq(pub_log, IsWait)

RetryableCode(o)    == o.kind = "client_error" /\ o.code \in sns_retryable_errors
NonRetryableCode(o) == o.kind = "client_error" /\ o.code \notin sns_retryable_errors

\* C15: _publish_with_retry publishes at most max_retries + 1 times and
\* always ends with true or false: true at the first publish that succeeds;
\* false, with no wait, at a ClientError whose code is not retryable; after
\* a ClientError with a retryable code, while attempts remain, it waits
\* 2^attempt seconds and publishes again; when every attempt has failed it
\* ends false after exactly max_retries waits.
C15_PublishWithRetry ==
    LET n == Len(Publishes)
    IN  /\ n <= pub_max_retries + 1
        /\ Len(Waits) <= pub_max_retries
        /\ \A k \in 1..Len(pub_log) :
             IF k % 2 = 1 THEN IsPublish(pub_log[k])
             ELSE pub_log[k] = WaitEvent(Pow2(k \div 2 - 1))
        /\ \A k \in 1..n :
             /\ Publishes[k].outcome.kind = "ok" =>
                  (k = n /\ pc # "pub_wait" /\ pub_result = "true")
             /\ NonRetryableCode(Publishes[k].outcome) =>
                  (k = n /\ pc # "pub_wait" /\ pub_result = "false"
                     /\ IsPublish(Last(pub_log)))
             /\ (RetryableCode(Publishes[k].outcome) /\ k <= pub_max_retries) =>
                  (Len(pub_log) >= 2 * k \/ pc = "pub_wait")
        /\ pub_result \in {"none", "true", "false"}
        /\ (entry = "_publish_with_retry" /\ pc = "pub_done") =>
             /\ pub_result # "none"
             /\ pub_result = "true" <=> Last(Publishes).outcome.kind = "ok"
             /\ IsPublish(Last(pub_log))
             /\ (\A k \in 1..n : Publishes[k].outcome.kind # "ok"
                                 /\ ~NonRetryableCode(Publishes[k].outcome)) =>
                  (n = pub_max_retries + 1 /\ Len(Waits) = pub_max_retries
                     /\ pub_result = "false")

C15_Witness ==
    /\ entry = "_publish_with_retry"
    /\ pc = "pub_done"
    /\ pub_max_retries = 2
    /\ pub_result = "false"
    /\ Len(Publishes) = 3
    /\ \A k \in 1..3 : RetryableCode(Publishes[k].outcome)
    /\ Waits = <<WaitEvent(1), WaitEvent(2)>>

Alerts    == SelectSeq(notify_log, IsAlert)
Fallbacks == SelectSeq(notify_log, IsFallback)

RECURSIVE Concat(_)
Concat(calls) ==
    IF calls = <<>> THEN <<>> ELSE Head(calls).records \o Concat(Tail(calls))

\* _send_notifications has run to its end
AlertStepDone ==
    \/ entry = "_send_notifications" /\ pc = "sn_returned"
    \/ /\ entry = "execute" /\ pc \in {"status_report", "finish", "returned"}
       /\ domain_error = NoError /\ domains # <<>> /\ categorize_error = NoError

\* C12: _send_notifications calls the notification service exactly when a
\* record is categorized expired or expiring soon; the records it passes
\* are the expired ones followed by the expiring ones, all of them valid and
\* none healthy; with nothing categorized so, no call and no publish is made
\* and it returns true.
C12_AlertOnlyWhenNeeded ==
    AlertStepDone =>
        LET flagged == categorized.expired \o categorized.expiring_soon
        IN  IF flagged = <<>>
            THEN /\ Alerts = <<>>
                 /\ Fallbacks = <<>>
                 /\ sent_log = <<>>
                 /\ pub_log = <<>>
                 /\ notification_sent
            ELSE /\ Len(Alerts) = 1
                 /\ Alerts[1] = notify_log[1]
                 /\ Alerts[1].records = flagged
                 /\ \A k \in 1..Len(flagged) :
                      /\ flagged[k].is_valid
                      /\ flagged[k].days_until_expiry <= warning_days
                      /\ (k <= Len(categorized.expired))
                           <=> (flagged[k].days_until_expiry < 0)
                 /\ Range(flagged) \cap Range(categorized.healthy) = {}

C12_Witness ==
    /\ entry = "_send_notifications"
    /\ pc = "sn_returned"
    /\ Len(certificates) = 5
    /\ certificates[3].days_until_expiry = 0
    /\ certificates[5].days_until_expiry = -2
    /\ Len(Alerts) = 1
    /\ Alerts[1].records = <<certificates[4], certificates[5], certificates[3]>>
    /\ notification_sent

\* C13: an alert of n records that _send_notifications hands to the SNS
\* service goes out as one message when n <= 20 and as ceil(n/10) messages
\* of at most 10 records when n > 20 (10, 10 and 5 for 25 records); the
\* messages, in order, add up to the list given.
C13_AlertBatching ==
    ( /\ entry = "_send_notifications" /\ pc = "sn_returned"
      /\ service_error = NoError
      /\ ~NothingToSend(categorized) ) =>
        LET n == Len(notification_domains)
        IN  /\ Concat(sent_log) = notification_domains
            /\ IF n <= 20
               THEN Len(sent_log) = 1
               ELSE /\ Len(sent_log) = (n + 9) \div 10
                    /\ \A k \in 1..Len(sent_log) :
                         /\ Len(sent_log[k].records) <= 10
                         /\ Len(sent_log[k].records) >= 1
            /\ n = 25 => /\ Len(sent_log) = 3
                         /\ Len(sent_log[1].records) = 10
                         /\ Len(sent_log[2].records) = 10
                         /\ Len(sent_log[3].records) = 5

C13_Witness ==
    /\ entry = "_send_notifications"
    /\ pc = "sn_returned"
    /\ Len(notification_domains) = MaxAlertRecords
    /\ Len(sent_log) = 3
    /\ Len(sent_log[3].records) = MaxAlertRecords - 2 * SnsDefaultBatchSize
    /\ sent_log[2].exhausted

\* the k-th slice of `list` in slices of `size`
Slice(list, size, k) ==
    SubSeq(list, (k - 1) * size + 1, Min(k * size, Len(list)))

\* C14: send_batch_notifications calls send_expiry_notification once per
\* batch, in order, whatever the earlier batches returned, and returns true
\* exactly when every one of those calls returned true.
C14_EveryBatchAttempted ==
    (entry = "send_batch_notifications") =>
        LET n      == Len(notification_domains)
            size   == IF n <= sns_batch_size THEN n ELSE sns_batch_size
            total  == IF n = 0 THEN 0 ELSE (n + size - 1) \div size
        IN  /\ Len(sent_log) <= total
            /\ \A k \in 1..Len(sent_log) :
                 sent_log[k].records = Slice(notification_domains, size, k)
            /\ pc = "service_returned" =>
                 /\ Len(sent_log) = total
                 /\ (sn_result = "true") <=>
                      (\A k \in 1..Len(sent_log) : sent_log[k].result)
                 /\ sn_result \in {"true", "false"}

C14_Witness ==
    /\ entry = "send_batch_notifications"
    /\ pc = "service_returned"
    /\ Len(sent_log) = 3
    /\ sent_log[1].result
    /\ ~sent_log[2].result
    /\ sent_log[3].result
    /\ sn_result = "false"

\* C16: when every publish attempt of the expiry alert has failed, the run
\* sends exactly one fallback error notification.
C16_FallbackAfterExhaustion ==
    ( /\ entry = "_send_notifications" /\ pc = "sn_returned"
      /\ \E k \in 1..Len(sent_log) : sent_log[k].exhausted ) =>
        Len(Fallbacks) = 1

NotificationFailed(c) == (IsAlert(c) \/ IsStatusReport(c)) /\ c.outcome # "sent"

\* C17: when the expiry alert or the status report was not sent, the errors
\* of the CheckResult execute returns hold an entry for it beside the error
\* messages of the records, and the two counts are those of the records.
C17_NotificationFailureReported ==
    ( /\ entry = "execute" /\ pc = "returned"
      /\ \E k \in 1..Len(notify_log) : NotificationFailed(notify_log[k]) ) =>
        /\ Len(result.errors) > Len(ErrorMessages(certificate_results))
        /\ result.successful_checks = SuccessfulCount(certificate_results)
        /\ result.failed_checks = FailedCount(certificate_results)

\* C18: when execute returns a result, lambda_handler returns status 500
\* with the failure message exactly when total_domains = 0 and errors is not
\* empty, and status 200 with the success message otherwise; the errors of
\* the response are the first five errors of the result, in order.
C18_StatusFromResult ==
    ( /\ entry = "lambda_handler" /\ pc = "lh_returned"
      /\ ctor_error = NoError /\ execute_error = NoError ) =>
        LET failure == result.total_domains = 0 /\ Len(result.errors) > 0
        IN  /\ ~response.raised
            /\ response.statusCode = (IF failure THEN 500 ELSE 200)
            /\ response.message = (IF failure THEN FailureMessage ELSE SuccessMessage)
            /\ Len(response.errors) = Min(5, Len(result.errors))
            /\ \A k \in 1..Len(response.errors) : response.errors[k] = result.errors[k]
            /\ response.summary.total_domains = result.total_domains
            /\ response.summary.failed_checks = result.failed_checks

C18_Witness ==
    /\ entry = "lambda_handler"
    /\ pc = "lh_returned"
    /\ response.statusCode = 200
    /\ result.failed_checks = 3
    /\ Len(result.errors) = 6
    /\ Len(response.errors) = 5

\* C19: when the monitor's constructor or execute raises, lambda_handler
\* lets no exception through: it returns status 500 with the critical-error
\* message and the text of the exception, also when logging the error fails.
C19_NeverPropagates ==
    (entry = "lambda_handler" /\ pc = "lh_returned") =>
        /\ ~response.raised
        /\ (ctor_error # NoError \/ execute_error # NoError) =>
             LET e == IF ctor_error # NoError THEN ctor_error ELSE execute_error
             IN  /\ response.statusCode = 500
                 /\ response.message = CriticalMessage
                 /\ response.error = Str("", e.msg)

C19_Witness ==
    /\ entry = "lambda_handler"
    /\ pc = "lh_returned"
    /\ execute_error = Err("Exception", "Execution error")
    /\ logging_fails
    /\ response.statusCode = 500
    /\ response.error = Str("", "Execution error")

\* C20: for every valid domain text d, normalizing the normalized text
\* gives the normalized text again.
C20_NormalizeIdempotent ==
    (entry = "normalize" /\ pc = "norm_done" /\ validate_domain(Text(raw_domain))) =>
        twice = once

\* C21: two calls of format_status_report_content with the same records and
\* the same summary return the same text, whatever the wall clock reads at
\* each call.
C21_StatusReportContentPure ==
    (entry = "send_status_report" /\ pc = "sr_done") =>
        status_message_again = status_message

\* the number shown by the line k of a text
Shown(text, k) ==
    LET IsK(l) == l.line = k IN SelectSeq(text, IsK)[1].n

\* C24: the status report counts no invalid record as expired or expiring
\* soon: the counts in its body are those of categorize_certificates on the
\* same records, and its subject shows the expired count when there is an
\* expired record, else the expiring count when there is an expiring one,
\* else neither.
C24_InvalidNeverCountedExpired ==
    (entry = "send_status_report" /\ pc \in {"sr_formatted", "sr_done"}) =>
        LET c == categorize_certificates(certificates, warning_days)
        IN  /\ Shown(status_message, "expired count") = Len(c.expired)
            /\ Shown(status_message, "expiring count") = Len(c.expiring_soon)
            /\ Shown(status_message, "failed count") = c.invalid
            /\ IF Len(c.expired) > 0
               THEN status_subject.kind = "expired"
                    /\ status_subject.count = Len(c.expired)
               ELSE IF Len(c.expiring_soon) > 0
               THEN status_subject.kind = "expiring"
                    /\ status_subject.count = Len(c.expiring_soon)
               ELSE status_subject.kind = "all normal"

\* the domains a text lists in the section whose records show the line
\* days_line, in order
ListedDomains(text, days_line) ==
    LET Starts(p) == /\ p + 2 <= Len(text)
                     /\ text[p].line = "domain"
                     /\ text[p + 2].line = days_line
        starts == SelectSeq([p \in 1..Len(text) |-> p], Starts)
    IN  [k \in 1..Len(starts) |-> text[starts[k]].domain]

DomainsOf(records) == [k \in 1..Len(records) |-> records[k].domain]

\* C28: whatever the warning window of the calculator, the alert content
\* lists every record the calculator classifies as expiring soon in its
\* expiring section and every record it classifies as expired in its
\* expired section.
C28_AlertListsEveryRecord ==
    (entry = "format_notification_content" /\ pc = "fn_done") =>
        /\ ListedDomains(alert_content, "days left") = DomainsOf(categorized.expiring_soon)
        /\ ListedDomains(alert_content, "days expired") = DomainsOf(categorized.expired)

\* what C22 says of one record
WellFormedRecord(c) ==
    IF c.is_valid THEN c.error_message = None
    ELSE /\ c.days_until_expiry = -1
         /\ c.issuer = "Unknown"
         /\ Truthy(c.error_message)

\* C22: every record of a run, built by check_certificate or by the
\* orchestrator when the check raised, has days_until_expiry -1, issuer
\* 'Unknown' and a non-empty error message when it is invalid, and no error
\* message when it is valid; check_certificate called by itself always ends
\* with a record, whatever the fetch and the parsing did.
C22_RecordWellFormed ==
    (entry \in {"check_certificate", "_check_certificates_batch", "execute"}) =>
        /\ \A k \in 1..Len(certificate_results) : WellFormedRecord(certificate_results[k])
        /\ (entry = "check_certificate" /\ pc = "checked") =>
             /\ Len(certificate_results) = 1
             /\ certificate_results[1].is_valid <=>
                  (wr_result.kind = "return" /\ wr_result.value.notAfter = "ok")

ParseFails(o) == o.kind = "ok" /\ _parse_expiry_date(o.value).kind = "raise"

\* C26: in check_certificate a fetch that returned is the last thing the
\* retry wrapper did: nothing is fetched or slept after it, also when the
\* certificate has no expiry or one that cannot be parsed, and then the
\* record is invalid; when that fetch was the first, it is the only event.
\* Every sleep follows a fetch that raised.
C26_ParseFailureNotRetried ==
    (entry = "check_certificate") =>
        /\ \A k \in 1..Len(events) :
             /\ (IsCall(events[k]) /\ events[k].outcome.kind = "ok") => k = Len(events)
             /\ IsSleep(events[k]) =>
                  (k > 1 /\ IsCall(events[k - 1]) /\ events[k - 1].outcome.kind = "raise")
        /\ (pc = "checked" /\ events # <<>> /\ ParseFails(Last(events).outcome)) =>
             /\ ~certificate_results[1].is_valid
             /\ certificate_results[1].days_until_expiry = -1
             /\ Truthy(certificate_results[1].error_message)
             /\ (events[1].outcome.kind = "ok") =>
                  (Len(CallEvents) = 1 /\ SleepEvents = <<>>)

C26_Witness ==
    /\ entry = "check_certificate"
    /\ pc = "checked"
    /\ Len(events) = 1
    /\ events[1].outcome = Ok(Cert("garbled", 0, "Test CA", ""))
    /\ ~certificate_results[1].is_valid
    /\ certificate_results[1].error_message.prefix = "ValueError"

\* the error message names the domain that was checked (one text of the
\* model does)
MentionsDomain(msg) == msg.text = NoCertificateText

\* execute went through the checks, the categorization and both
\* notification steps
NormalRun ==
    /\ entry = "execute" /\ pc = "returned"
    /\ domain_error = NoError /\ domains # <<>> /\ categorize_error = NoError

\* C23: the errors of the CheckResult of a run hold one message for each
\* failed domain and none for a successful one, and each message names the
\* domain that failed.
C23_OneErrorPerFailedDomain ==
    NormalRun =>
        /\ result.failed_checks = FailedCount(certificate_results)
        /\ Len(result.errors) = result.failed_checks
        /\ \A k \in 1..Len(result.errors) : MentionsDomain(result.errors[k])

\* C29: the summary handed to send_status_report has the counts of the
\* records handed with it: successful_checks the valid ones, failed_checks
\* the invalid ones, also when a check raised, and the two add up to
\* total_domains.
C29_SummaryAgreesWithRecords ==
    (entry = "execute") =>
        \A k \in 1..Len(StatusReports) :
            LET call == StatusReports[k]
            IN  /\ call.summary.successful_checks = SuccessfulCount(call.records)
                /\ call.summary.failed_checks = FailedCount(call.records)
                /\ call.summary.successful_checks + call.summary.failed_checks
                     = call.summary.total_domains

\* C25: for n >= 1 domains and batch size b, _check_certificates_batch
\* pauses exactly ceil(n/b) - 1 times; each pause comes after the last domain
\* of a batch was checked and before the first domain of the next batch is
\* checked (the number of checks made before it is a positive multiple of b
\* and smaller than n, and no two pauses follow the same batch), and no pause
\* follows the last batch.
ChecksBefore(log, k) ==
    Cardinality({m \in 1..(k - 1) : log[m].ev = "check"})

Pauses(log) == {k \in 1..Len(log) : log[k].ev = "pause"}

C25_InterBatchPause ==
    (entry = "_check_certificates_batch" /\ Len(domains) >= 1) =>
        LET n == Len(domains)
            b == batch_size
        IN  /\ \A k \in Pauses(batch_log) :
                  LET c == ChecksBefore(batch_log, k)
                  IN  /\ c >= b /\ c % b = 0 /\ c < n
                      /\ k > 1 /\ batch_log[k - 1].ev = "check"
                      /\ (pc = "batch_return" \/ k < Len(batch_log)) =>
                             /\ k < Len(batch_log)
                             /\ batch_log[k + 1].ev = "check"
            /\ pc = "batch_return" =>
                  /\ Cardinality(Pauses(batch_log)) = TotalBatches(n, b) - 1
                  /\ batch_log[Len(batch_log)].ev = "check"

\* a batch run that paused twice and one whose last batch is a short one
C25_Witness ==
    /\ entry = "_check_certificates_batch"
    /\ pc = "batch_return"
    /\ Len(domains) = 3
    /\ batch_size = 1
    /\ Cardinality(Pauses(batch_log)) = 2

\* C30: TimeoutHandler.with_timeout leaves no timeout armed: on every exit
\* path (return, TimeoutError, any other exception of the wrapped function)
\* the alarm it set is cancelled before the previous handler is restored, so
\* no alarm armed by with_timeout fires after it has exited.
C30_NoAlarmLeftArmed ==
    (entry = "with_timeout" /\ pc = "wt_exited") =>
        /\ alarm = 0
        /\ sigalrm_delivered # "old_handler"

\* C27: execute always completes.  For any finite domain list and any
\* outcomes of the checks, the categorization, the alert and the status
\* report (each returns or raises), execute eventually returns a CheckResult
\* and no exception leaves it; the run goes NotStarted -> InProgress ->
\* Completed, the batches are taken in increasing order and no step goes back
\* to an earlier batch or phase.  The batch loop run by itself reaches its
\* return the same way.
Phase ==
    IF pc \in {"execute_begin", "batch_begin"} THEN 0
    ELSE IF pc = "returned" \/ (entry = "_check_certificates_batch" /\ pc = "batch_return")
    THEN 2
    ELSE 1

Completed ==
    \/ entry = "execute" /\ pc = "returned" /\ result # NoResult
    \/ entry = "_check_certificates_batch" /\ pc = "batch_return"

C27_ExecuteAlwaysCompletes ==
    /\ <>Completed
    /\ [](pc # "raised")
    /\ [][ /\ Phase' >= Phase
           /\ i' >= i
           /\ i' \in {i, i + batch_size}
           /\ (i' # i) => (Phase = 1 /\ j' = 0)
           /\ Len(certificate_results') >= Len(certificate_results)
           /\ Phase = 2 => UNCHANGED <<pc, result, certificate_results>> ]_vars

\* execute returned a CheckResult although a check and the categorization
\* raised
C27_Witness ==
    /\ entry = "execute" /\ pc = "returned"
    /\ categorize_error # NoError
    /\ \E k \in 1..Len(batch_log) : batch_log[k].raised
    /\ Len(result.errors) = 1

====
